---------------------------- MODULE Spec2Model ----------------------------
(***************************************************************************)
(* Ageing Futures simulation engine (src/ageing_futures/sim).              *)
(*                                                                         *)
(* Numbers.  The program computes in floating point; the model computes    *)
(* in fixed point.  Probabilities, random draws, linear predictors, ramp   *)
(* and effect strengths are in thousandths (PScale), intensity and         *)
(* coverage in tenths, ages in months, lengths of stay in days, money in   *)
(* hundredths of a pound per tenth*tenth (see calculate_policy_cost).      *)
(* exp() is a table at that resolution.                                    *)
(*                                                                         *)
(* Objects.  Cohort objects and numpy arrays are heap objects with an      *)
(* identity: objs maps a cohort id to its dict of column -> array id and   *)
(* its months_elapsed, arrs maps an array id to its contents.  A copy      *)
(* allocates, an assignment through a reference writes the shared object.  *)
(***************************************************************************)
EXTENDS Integers, Sequences, FiniteSets, TLC

VARIABLES
    cfg,        \* the config bundle shared by every call (ConfigBundle)
    round,      \* the Lecturer Console's current round: months and shock
    objs,       \* heap of Cohort objects
    arrs,       \* heap of numpy arrays
    nextId,     \* per team: allocation counter of heap identities
    pc,         \* per team: position of its simulate_round call
    gens,       \* heap of numpy Generator objects: identity -> state
    fr,         \* per team: the call's arguments and local variables
    ret,        \* per team: what the call returned (or that it raised)
    held,       \* per team: the cohort objects the caller holds
    prev,       \* per team: inputs and outputs of the previous completed call
    acc,        \* per team: heap identities the running call has read / written
    pure        \* argument and result of a directly called pure function

vars == <<cfg, round, objs, arrs, nextId, pc, gens, fr, ret, held, prev, acc, pure>>

-----------------------------------------------------------------------------
(* Bounds of the model *)

N == 2              \* individuals in a cohort
MaxMonths == 2      \* largest `months` argument
MaxCalls == 2       \* successive simulate_round calls by one caller
NSeeds == 2         \* seeds 0 .. NSeeds-1

Teams == {1, 2}
Ind == 1..N
PScale == 10 * 10 * 10     \* probabilities, predictors, strengths: thousandths

Min(a, b) == IF a < b THEN a ELSE b
Max(a, b) == IF a > b THEN a ELSE b
Clip(x, lo, hi) == Max(lo, Min(hi, x))

RECURSIVE SumOver(_, _)
SumOver(S, f) ==
    IF S = {} THEN 0
    ELSE LET x == CHOOSE y \in S : TRUE IN f[x] + SumOver(S \ {x}, f)

Count(a) == Cardinality({i \in DOMAIN a : a[i] # 0})


-----------------------------------------------------------------------------
(* Python dicts: functions from keys to values *)

EmptyDict == [k \in {} |-> 0]
Get(d, k, default) == IF k \in DOMAIN d THEN d[k] ELSE default
Put(d, k, v) == [x \in (DOMAIN d) \cup {k} |-> IF x = k THEN v ELSE d[x]]
\* d1 | d2 : the right operand wins on a shared key
Merge(d1, d2) ==
    [x \in (DOMAIN d1) \cup (DOMAIN d2) |-> IF x \in DOMAIN d2 THEN d2[x] ELSE d1[x]]

-----------------------------------------------------------------------------
(* exp at the model's resolution *)

ExpTable ==
    << 6, 8, 11, 14, 18, 23, 30, 38, 49, 63, 82, 105, 135, 173, 223, 286, 367,
       472, 606, 778, 1000, 1284, 1648, 2117, 2718, 3490, 4481, 5754, 7389,
       9487, 12182, 15642, 20085, 25790, 33115, 42521, 54598, 70105, 90017,
       115584, 148413, 190566, 244691, 314190, 403428, 518012, 665141, 854058,
       1096633 >>

ExpNegTable ==
    << 1000, 904, 818, 740, 670, 606, 548, 496, 449, 406, 367, 332, 301, 272,
       246, 223, 201, 182, 165, 149, 135, 122, 110, 100, 90, 82, 74, 67, 60,
       55, 49, 45, 40, 36, 33, 30, 27, 24, 22, 20, 18, 16, 14, 13, 12, 11, 10,
       9, 8, 7, 6, 6, 5, 4, 4, 4, 3, 3, 3, 2, 2, 2, 2, 1, 1, 1, 1, 1, 1, 1 >>

\* the floating-point values that are no numbers
Inf == 2 * PScale * PScale * PScale
NaN == -Inf

\* the largest x, in thousandths, whose exponential is a finite double
ExpOverflow == 709782

\* np.exp(x) for x in thousandths, result in thousandths (steps of 0.25);
\* inf beyond the range of a double
Exp(x) ==
    IF x > ExpOverflow THEN Inf
    ELSE ExpTable[Clip((x + 5000) \div 250, 0, Len(ExpTable) - 1) + 1]

\* np.exp(-x) for x >= 0 in thousandths, result in thousandths (steps of 0.1)
ExpNeg(x) ==
    IF x \div 100 >= Len(ExpNegTable) THEN 0 ELSE ExpNegTable[(x \div 100) + 1]

-----------------------------------------------------------------------------
(* hazards.py *)

RECURSIVE LinearTerms(_, _, _, _)
LinearTerms(keys, coefficients, features, i) ==
    IF keys = {} THEN 0
    ELSE LET key == CHOOSE k \in keys : TRUE
             rest == LinearTerms(keys \ {key}, coefficients, features, i)
         IN  IF key \in DOMAIN features
             THEN rest + (coefficients[key] * features[key][i]) \div PScale
             ELSE rest

\* log_linear_predictor for individual i; feature values in thousandths
log_linear_predictor(intercept, coefficients, features, i) ==
    intercept + LinearTerms(DOMAIN coefficients, coefficients, features, i)

\* hazard_to_probability; -inf * 0 is nan, which np.exp, the subtraction
\* and np.clip hand on
hazard_to_probability(hazard, dt_months) ==
    IF hazard = NaN THEN NaN
    ELSE IF hazard = Inf THEN (IF dt_months = 0 THEN NaN ELSE PScale)
    ELSE Clip(PScale - ExpNeg((Max(hazard, 0) * dt_months) \div 12), 0, PScale)

log_hazard_to_probability(lp, dt_months) ==
    hazard_to_probability(Exp(lp), dt_months)

\* the probabilities ensure_competing_risk works on, as exact fractions
\* [n, d] in lowest terms (d > 0): its rounding errors (1e-16) are far below
\* the tolerance it tests (1e-8)
RECURSIVE GCD(_, _)
GCD(a, b) == IF b = 0 THEN a ELSE GCD(b, a % b)
Rat(n, d) ==
    LET g == GCD(IF n < 0 THEN -n ELSE n, d)
    IN  IF n = 0 THEN [n |-> 0, d |-> 1] ELSE [n |-> n \div g, d |-> d \div g]
RatAdd(a, b) ==
    IF a.d = b.d THEN Rat(a.n + b.n, a.d) ELSE Rat(a.n * b.d + b.n * a.d, a.d * b.d)
RatSub(a, b) == RatAdd(a, [n |-> -b.n, d |-> b.d])
RatMul(a, b) == LET x == Rat(a.n, b.d) y == Rat(b.n, a.d) IN Rat(x.n * y.n, x.d * y.d)
\* a / b for b > 0
RatDiv(a, b) == RatMul(a, [n |-> b.d, d |-> b.n])
RatLe(a, b) == a.n * b.d <= b.n * a.d
RatZero == [n |-> 0, d |-> 1]
RatOne == [n |-> 1, d |-> 1]
RatClip(a, lo, hi) == IF RatLe(a, lo) THEN lo ELSE IF RatLe(hi, a) THEN hi ELSE a

\* x <= 1e-8 for a fraction x >= 0
WithinTolerance(x) == x.n = 0 \/ x.d \div x.n >= 10 * 10 * 10 * 10 * 10 * 10 * 10 * 10

RECURSIVE RiskTotal(_, _, _)
\* total += arr, vector after vector, for individual i
RiskTotal(probabilities, i, k) ==
    IF k = 0 THEN RatZero
    ELSE RatAdd(RiskTotal(probabilities, i, k - 1), probabilities[k][i])

\* fault variant of ensure_competing_risk: the excess is taken off the
\* vectors in equal parts instead of in proportion to their shares
ensure_competing_risk_EqualParts(probabilities) ==
    LET K == Len(probabilities)
        inds == DOMAIN probabilities[1]
        total == [i \in inds |-> RiskTotal(probabilities, i, K)]
        excess == [i \in inds |->
                    IF RatLe(total[i], RatOne) THEN RatZero ELSE RatSub(total[i], RatOne)]
    IN  IF \A i \in inds : WithinTolerance(excess[i]) THEN probabilities
        ELSE [k \in 1..K |->
                [i \in inds |->
                    RatClip(RatSub(probabilities[k][i],
                                   RatDiv(excess[i], [n |-> K, d |-> 1])),
                            RatZero, RatOne)]]

\* ensure_competing_risk: a list of probability vectors; the 1e-12 added to
\* the total only keeps a total of 0 from dividing (0 / 1e-12 = 0)
ensure_competing_risk(probabilities) ==
    LET K == Len(probabilities)
        inds == DOMAIN probabilities[1]
        total == [i \in inds |-> RiskTotal(probabilities, i, K)]
        excess == [i \in inds |->
                    IF RatLe(total[i], RatOne) THEN RatZero ELSE RatSub(total[i], RatOne)]
    IN  IF \A i \in inds : WithinTolerance(excess[i]) THEN probabilities
        ELSE [k \in 1..K |->
                [i \in inds |->
                    LET share == IF total[i].n = 0 THEN RatZero
                                 ELSE RatDiv(probabilities[k][i], total[i])
                    IN  RatClip(RatSub(probabilities[k][i], RatMul(excess[i], share)),
                                RatZero, RatOne)]]

-----------------------------------------------------------------------------
(* The config bundle.  The JSON files of the config directory are data     *)
(* supplied to the engine; the values below are one such bundle.           *)

TransitionNames ==
    {"ltc_onset", "ltc_progression", "disability_onset", "disability_recovery",
     "hospitalisation", "care_home", "mortality"}

AllTransitions ==
    [ltc_onset |-> [intercept |-> 1000,
                    coefficients |-> [imd_quintile |-> 250]],
     ltc_progression |-> [intercept |-> 1500,
                          coefficients |-> [ltc_level |-> 500]],
     disability_onset |-> [intercept |-> 1000,
                           coefficients |-> [ltc_level |-> 500]],
     disability_recovery |-> [intercept |-> 2000,
                              coefficients |-> [imd_quintile |-> -250]],
     hospitalisation |-> [intercept |-> 1000,
                          coefficients |-> [ltc_level |-> 500, disability |-> 500,
                                            shock_hospital |-> 4000]],
     care_home |-> [intercept |-> 2500,
                    coefficients |-> [disability |-> 500]],
     mortality |-> [intercept |-> 0,
                    coefficients |-> [ltc_level |-> 500, hospitalised |-> 1000,
                                      shock_mortality |-> 4000]]]

Without(d, k) == [x \in (DOMAIN d) \ {k} |-> d[x]]

PolicyCatalogue ==
    << [id |-> "falls_prevention", cost_per_capita |-> 50,
        effects |-> [disability_onset |-> -1500, hospitalisation |-> -1000],
        lag_months |-> 0, diminishing_return |-> 0],
       [id |-> "smoking_cessation", cost_per_capita |-> 30,
        effects |-> [ltc_onset |-> -2000, mortality |-> -1000],
        lag_months |-> 3, diminishing_return |-> 500],
       [id |-> "community_rehab", cost_per_capita |-> 20,
        effects |-> [disability_recovery |-> 1000, capacity_community |-> 200],
        lag_months |-> 1, diminishing_return |-> 200] >>

UnitCosts == [hospital_bed_day |-> 400, care_home_day |-> 100]
QalyWeights ==
    [healthy |-> 900, ltc_mild |-> 800, ltc_moderate |-> 650, ltc_severe |-> 450,
     disability |-> 500]
ScoringWeights == [health |-> 400, cost |-> 200, capacity |-> 200, equity |-> 200]

\* a complete bundle, or one whose transitions lack the definition `missing`
Bundle(missing) ==
    [transitions |->
        [time_step_months |-> 1,
         transitions |-> IF missing = "none" THEN AllTransitions
                         ELSE Without(AllTransitions, missing),
         length_of_stay |-> [hospital |-> [mean |-> 7000]]],
     policies |-> [policies |-> PolicyCatalogue],
     costs |-> [unit_costs |-> UnitCosts, qaly_weights |-> QalyWeights],
     scoring |-> [weights |-> ScoringWeights, normalisation |-> "zscore"]]

-----------------------------------------------------------------------------
(* shocks.py *)

PREDEFINED_SHOCKS ==
    [heatwave |-> [name |-> "heatwave", duration_months |-> 2,
                   modifiers |-> [shock_hospital |-> 250, shock_mortality |-> 150]],
     cold_snap |-> [name |-> "cold_snap", duration_months |-> 3,
                    modifiers |-> [shock_mortality |-> 200, shock_hospital |-> 100]],
     flu_season |-> [name |-> "flu_season", duration_months |-> 3,
                     modifiers |-> [shock_hospital |-> 180]],
     industrial_action |-> [name |-> "industrial_action", duration_months |-> 1,
                            modifiers |-> [capacity_hospital |-> -200,
                                           capacity_community |-> -150]]]

RECURSIVE AddAll(_, _, _)
\* for key, value in src.items(): modifiers[key] = modifiers.get(key, 0.0) + value
AddAll(modifiers, src, keys) ==
    IF keys = {} THEN modifiers
    ELSE LET key == CHOOSE k \in keys : TRUE
         IN  AddAll(Put(modifiers, key, Get(modifiers, key, 0) + src[key]),
                    src, keys \ {key})

RECURSIVE ShockFold(_, _, _)
ShockFold(modifiers, active, n) ==
    IF n > Len(active) THEN modifiers
    ELSE ShockFold(AddAll(modifiers, active[n].modifiers, DOMAIN active[n].modifiers),
                   active, n + 1)

active_shock_modifiers(active) == ShockFold(EmptyDict, active, 1)


-----------------------------------------------------------------------------
(* policies.py *)

\* Python's None for an optional mapping or list: [none |-> TRUE]
None == [none |-> TRUE, items |-> <<>>]
Some(items) == [none |-> FALSE, items |-> items]
\* `not decisions`: None and the empty mapping are both falsy
Falsy(opt) == opt.none \/ DOMAIN opt.items = {}

\* fault variant of ramp: the lag is not waited for
ramp_NoLag(ap) ==
    IF ap.months_active <= 0 THEN 0
    ELSE Clip(PScale - ExpNeg((ap.months_active * PScale) \div 6), 0, PScale)

\* ActivePolicy.ramp
ramp(ap) ==
    LET lag == Max(ap.policy.lag_months, 0)
    IN  IF ap.months_active <= lag THEN 0
        ELSE Clip(PScale - ExpNeg(((ap.months_active - lag) * PScale) \div 6),
                  0, PScale)

\* fault variant of diminishing_multiplier: the coefficient is used as
\* configured
diminishing_multiplier_Unclamped(ap) ==
    PScale - (ap.policy.diminishing_return * (PScale - Clip(ap.intensity * 100, 0, PScale)))
                \div PScale

\* ActivePolicy.diminishing_multiplier; intensity in tenths
diminishing_multiplier(ap) ==
    LET dim == Max(0, Min(PScale, ap.policy.diminishing_return))
    IN  PScale - (dim * (PScale - Clip(ap.intensity * 100, 0, PScale))) \div PScale

\* ActivePolicy.effect_strength
effect_strength(ap) ==
    (Clip(ap.intensity * 100, 0, PScale) * ramp(ap) * diminishing_multiplier(ap))
        \div (PScale * PScale)

\* fault variant of PolicyLookup: an id the catalogue lacks falls back to the
\* first policy of the catalogue
PolicyLookup_Fallback(policies, policy_id, n) ==
    IF \E k \in 1..n : policies[k].id = policy_id
    THEN [none |-> FALSE,
          policy |-> policies[CHOOSE k \in 1..n :
                        /\ policies[k].id = policy_id
                        /\ \A j \in (k + 1)..n : policies[j].id # policy_id]]
    ELSE IF n = 0 THEN [none |-> TRUE]
    ELSE [none |-> FALSE, policy |-> policies[1]]

RECURSIVE PolicyLookup(_, _, _)
\* {policy.id: policy for policy in policies}.get(policy_id): the last entry
\* with that id, or None
PolicyLookup(policies, policy_id, n) ==
    IF n = 0 THEN [none |-> TRUE]
    ELSE IF policies[n].id = policy_id
         THEN [none |-> FALSE, policy |-> policies[n]]
         ELSE PolicyLookup(policies, policy_id, n - 1)

RECURSIVE BuildActive(_, _, _, _)
BuildActive(policies_cfg, items, months_elapsed, n) ==
    IF n > Len(items) THEN <<>>
    ELSE LET policy_id == items[n].id
             detail == items[n].detail
             found == PolicyLookup(policies_cfg.policies, policy_id,
                                   Len(policies_cfg.policies))
             rest == BuildActive(policies_cfg, items, months_elapsed, n + 1)
         IN  IF found.none THEN rest
             ELSE << [id |-> policy_id,
                      policy |-> found.policy,
                      intensity |-> Get(detail, "intensity", 10),
                      months_active |-> Get(months_elapsed, policy_id, 0)] >>
                  \o rest

\* build_active_policies: the active policies in the order of the decisions
build_active_policies(policies_cfg, decisions, months_elapsed) ==
    IF Falsy(decisions) THEN <<>>
    ELSE BuildActive(policies_cfg, decisions.items, months_elapsed, 1)

RECURSIVE AddEffects_Overwrite(_, _, _, _)
\* fault variant of AddEffects: the value replaces the one already there
AddEffects_Overwrite(modifiers, effects, strength, keys) ==
    IF keys = {} THEN modifiers
    ELSE LET key == CHOOSE k \in keys : TRUE
         IN  AddEffects_Overwrite(Put(modifiers, key, (effects[key] * strength) \div PScale),
                                  effects, strength, keys \ {key})

RECURSIVE AddEffects(_, _, _, _)
\* modifiers[key] = modifiers.get(key, 0.0) + value * strength
AddEffects(modifiers, effects, strength, keys) ==
    IF keys = {} THEN modifiers
    ELSE LET key == CHOOSE k \in keys : TRUE
         IN  AddEffects(Put(modifiers, key,
                            Get(modifiers, key, 0) + (effects[key] * strength) \div PScale),
                        effects, strength, keys \ {key})

RECURSIVE AggregateFold(_, _, _)
AggregateFold(modifiers, active, n) ==
    IF n > Len(active) THEN modifiers
    ELSE LET strength == effect_strength(active[n])
         IN  IF strength <= 0 THEN AggregateFold(modifiers, active, n + 1)
             ELSE AggregateFold(
                      AddEffects(modifiers, active[n].policy.effects, strength,
                                 DOMAIN active[n].policy.effects),
                      active, n + 1)

aggregate_policy_effects(active) == AggregateFold(EmptyDict, active, 1)

RECURSIVE CostFold(_, _, _, _)
CostFold(policies_cfg, items, cohort_size, n) ==
    IF n > Len(items) THEN 0
    ELSE LET found == PolicyLookup(policies_cfg.policies, items[n].id,
                                   Len(policies_cfg.policies))
             intensity == Get(items[n].detail, "intensity", 10)
             coverage == Get(items[n].detail, "coverage", 10)
             rest == CostFold(policies_cfg, items, cohort_size, n + 1)
         IN  IF found.none THEN rest
             ELSE found.policy.cost_per_capita * cohort_size * intensity * coverage
                  + rest

\* fault variant of calculate_policy_cost: the coverage is left out
calculate_policy_cost_NoCoverage(policies_cfg, decisions, cohort_size) ==
    IF Falsy(decisions) THEN 0
    ELSE LET items == decisions.items
             term(n) ==
                LET found == PolicyLookup(policies_cfg.policies, items[n].id,
                                          Len(policies_cfg.policies))
                IN  IF found.none THEN 0
                    ELSE found.policy.cost_per_capita * cohort_size
                            * Get(items[n].detail, "intensity", 10) * 10
         IN  SumOver(1..Len(items), [n \in 1..Len(items) |-> term(n)])

\* calculate_policy_cost, in hundredths of a pound (intensity, coverage: tenths)
calculate_policy_cost(policies_cfg, decisions, cohort_size) ==
    IF Falsy(decisions) THEN 0
    ELSE CostFold(policies_cfg, decisions.items, cohort_size, 1)

-----------------------------------------------------------------------------
(* capacity.py *)

Mean(a) == SumOver(DOMAIN a, a) \div Cardinality(DOMAIN a)
\* fraction of nonzero entries, in millionths
Fraction(a) == (Count(a) * PScale * PScale) \div Cardinality(DOMAIN a)

\* a * b for a, b in thousandths, result in thousandths
MulDiv(a, b) == (a \div PScale) * b + ((a % PScale) * b) \div PScale

\* capacity_feedback; data: the cohort's columns by value, beds in thousandths
capacity_feedback(data, base_length_of_stay, modifiers) ==
    LET hospital_beds == Mean(data["hospital_beds_per_1k"])
        care_beds == Mean(data["care_home_beds_per_1k"])
        hospital_occupancy == (Fraction(data["hospitalised"]) * PScale)
                                  \div Max(hospital_beds, 100)
        care_occupancy == (Fraction(data["care_home"]) * PScale)
                              \div Max(care_beds, 100)
        hospital_pressure == Max(0, hospital_occupancy - PScale)
        care_pressure == Max(0, care_occupancy - PScale)
        los_multiplier == PScale + (hospital_pressure * 3) \div 10
        mortality_multiplier == PScale + (hospital_pressure * 2) \div 10
        disability_persistence == PScale + (care_pressure * 15) \div 100
    IN  [length_of_stay |->
            MulDiv(MulDiv(los_multiplier, PScale + Get(modifiers, "capacity_hospital", 0)),
                   base_length_of_stay),
         mortality_multiplier |-> mortality_multiplier,
         disability_persistence |->
            MulDiv(disability_persistence,
                   PScale + Get(modifiers, "capacity_community", 0))]

-----------------------------------------------------------------------------
(* utils.rng and the numpy Generator: a generator is its state; every      *)
(* number drawn advances the state; the stream is a function of the seed.  *)

GenMod == 16

\* fault variant of rng: the generator of the call before is carried on, the
\* seed is used only when there was none
rng_Carried(t, seed) == [id |-> <<t, 0>>, state |-> Get(gens, <<t, 0>>, seed % GenMod)]

\* fault variant of rng: every call seeds and draws from one module-level
\* generator
rng_Shared(t, seed) == [id |-> <<0, 0>>, state |-> seed % GenMod]

\* rng(seed): a new Generator object, owned by the call of team t, seeded
rng(t, seed) == [id |-> <<t, 0>>, state |-> seed % GenMod]
NextGen(g) == (5 * g + 3) % GenMod
\* the number in [0, 1) a state yields, in thousandths
Uniform(g) == (g * PScale) \div GenMod

RECURSIVE GenAfter(_, _)
GenAfter(g, n) == IF n = 0 THEN g ELSE GenAfter(NextGen(g), n - 1)

\* gen.random(size): entry k is the k-th number drawn
Random(g, size) == [k \in 1..size |-> Uniform(GenAfter(g, k))]

\* gen.gamma(shape=mean/2, scale=2, size): one number drawn per sample; the
\* sample is the mean (thousandths of a day) scaled by a quantile factor
\* (hundredths of the mean), in days
GammaFactor(u) == IF u >= 900 THEN 500 ELSE 10 + u \div 5
Gamma(g, los_mean, size) ==
    [k \in 1..size |->
        ((los_mean \div 10) * GammaFactor(Uniform(GenAfter(g, k)))) \div (10 * PScale)]


-----------------------------------------------------------------------------
(* states.py: Cohort objects on the heap *)

ColSeq ==
    << "age", "imd_quintile", "ltc_state", "disability", "hospitalised",
       "alive", "care_home", "hospital_beds_per_1k", "care_home_beds_per_1k" >>
Cols == {ColSeq[j] : j \in 1..Len(ColSeq)}
ColIndex(c) == CHOOSE j \in 1..Len(ColSeq) : ColSeq[j] = c

\* the contents of a cohort object: its columns by value and months_elapsed
Deref(os, as, c) ==
    [data |-> [col \in Cols |-> as[os[c].data[col]]],
     months_elapsed |-> os[c].months_elapsed]

\* the array identities a cohort object refers to
ArraysOf(os, c) == {os[c].data[col] : col \in Cols}

\* fault variant of Cohort.copy: a new Cohort object on the arrays of the
\* source
CohortCopy_Shallow(os, as, self, t, base) ==
    [id |-> <<t, base>>,
     obj |-> os[self],
     arrays |-> [col \in Cols |-> as[os[self].data[col]]]]

\* Cohort.copy: a new Cohort object `new` whose every column is a new array
\* (identities <<t, base + j>>) with the source's contents
CohortCopy(os, as, self, t, base) ==
    [id |-> <<t, base>>,
     obj |-> [data |-> [col \in Cols |-> <<t, base + ColIndex(col)>>],
              months_elapsed |-> os[self].months_elapsed],
     arrays |-> [col \in Cols |-> as[os[self].data[col]]]]

\* ndarray.astype(bool): a new array of truth values
AsBool(a) == [i \in DOMAIN a |-> IF a[i] # 0 THEN 1 ELSE 0]
\* ndarray.astype(int) / astype(float): a new array with the same numbers
AsNum(a) == [i \in DOMAIN a |-> a[i]]

-----------------------------------------------------------------------------
(* baseline.py *)

\* create_baseline_cohort(seed): the columns of the synthetic cohort.  Ten
\* vectors of n numbers are drawn before the LTC draws (age band, age, sex,
\* region, deprivation, urban/rural, four indices); the categorical
\* distributions are uniform.
create_baseline_cohort(seed) ==
    LET g0 == seed % GenMod
        draw(k) == Random(GenAfter(g0, (k - 1) * N), N)
        band == [i \in Ind |-> (draw(1)[i] * 5) \div PScale]
        ages == [i \in Ind |->
                    65 + 5 * band[i]
                    + (draw(2)[i] * (IF band[i] = 4 THEN 11 ELSE 5)) \div PScale]
        imd == [i \in Ind |-> 1 + (draw(5)[i] * 5) \div PScale]
        base_prob == [i \in Ind |->
                        Clip(200 + 10 * (ages[i] - 65) + 30 * (imd[i] - 3), 50, 900)]
        ltc1 == [i \in Ind |-> IF draw(11)[i] < base_prob[i] THEN 1 ELSE 0]
        progression_prob == [i \in Ind |-> Clip(150 + 8 * (ages[i] - 70), 50, 800)]
        ltc2 == [i \in Ind |->
                    IF draw(12)[i] < progression_prob[i] * (IF ltc1[i] > 0 THEN 1 ELSE 0)
                    THEN 2 ELSE ltc1[i]]
        severe_prob == [i \in Ind |-> Clip(60 + 10 * (ages[i] - 80), 20, 600)]
        ltc3 == [i \in Ind |->
                    IF draw(13)[i] < severe_prob[i] * (IF ltc2[i] >= 2 THEN 1 ELSE 0)
                    THEN 3 ELSE ltc2[i]]
        disability == [i \in Ind |->
                        IF draw(14)[i] < Clip(100 + 20 * ltc3[i], 0, 700) THEN 1 ELSE 0]
    IN  [age |-> [i \in Ind |-> 12 * ages[i]],
         imd_quintile |-> imd,
         ltc_state |-> ltc3,
         disability |-> disability,
         hospitalised |-> [i \in Ind |-> 0],
         alive |-> [i \in Ind |-> 1],
         care_home |-> [i \in Ind |-> 0],
         hospital_beds_per_1k |-> [i \in Ind |-> 3000],
         care_home_beds_per_1k |-> [i \in Ind |-> 5000]]


-----------------------------------------------------------------------------
(* engine.py: helpers *)

CapacityKeys == {"capacity_hospital", "capacity_community"}

\* fault variant of lookup: a missing definition reads as a neutral one
\* (transitions.get(name, default))
lookup_Default(transitions, name) ==
    IF name \in DOMAIN transitions
    THEN [raised |-> FALSE, value |-> transitions[name]]
    ELSE [raised |-> FALSE, value |-> [intercept |-> -3000, coefficients |-> EmptyDict]]

\* transitions_cfg.transitions[name]: the definition, or KeyError
lookup(transitions, name) ==
    IF name \in DOMAIN transitions
    THEN [raised |-> FALSE, value |-> transitions[name]]
    ELSE [raised |-> TRUE]

\* _build_features, with the three columns that features.update replaces at
\* the start of a step; values in thousandths, age in years
BuildFeatures(age, imd_quintile, ltc_state, disability, hospitalised) ==
    [age |-> [i \in Ind |-> (age[i] * PScale) \div 12],
     imd_quintile |-> [i \in Ind |-> imd_quintile[i] * PScale],
     ltc_level |-> [i \in Ind |-> ltc_state[i] * PScale],
     disability |-> [i \in Ind |-> disability[i] * PScale],
     hospitalised |-> [i \in Ind |-> hospitalised[i] * PScale]]

\* the features of _probability_for_transition: a modifier key that is a
\* coefficient and no feature becomes a constant feature; the policy
\* modifiers are visited first
CombinedFeatures(features, coefficients, policy_modifiers, shock_modifiers) ==
    LET extra == {key \in (DOMAIN policy_modifiers) \cup (DOMAIN shock_modifiers) :
                    /\ key \notin CapacityKeys
                    /\ key \in DOMAIN coefficients
                    /\ key \notin DOMAIN features}
    IN  [key \in (DOMAIN features) \cup extra |->
            IF key \in DOMAIN features THEN features[key]
            ELSE IF key \in DOMAIN policy_modifiers
                 THEN [i \in Ind |-> policy_modifiers[key]]
                 ELSE [i \in Ind |-> shock_modifiers[key]]]

\* _probability_for_transition: the probability of every individual
probability_for_transition(name, features, intercept, coefficients, dt_months, policy_modifiers, shock_modifiers) ==
    LET intercept_shift == Get(policy_modifiers, name, 0) + Get(shock_modifiers, name, 0)
        combined == CombinedFeatures(features, coefficients, policy_modifiers,
                                     shock_modifiers)
    IN  [i \in Ind |->
            log_hazard_to_probability(
                log_linear_predictor(intercept + intercept_shift, coefficients,
                                     combined, i),
                dt_months)]

\* fault variant of Masked: the alive mask is not applied
Masked_Unmasked(probs, alive_mask) == probs

\* probability * alive_mask
Masked(probs, alive_mask) == [i \in Ind |-> probs[i] * alive_mask[i]]

\* decisions[policy_id], when the mapping has the key
RECURSIVE DetailOf(_, _, _)
DetailOf(items, policy_id, n) ==
    IF n > Len(items) THEN [none |-> TRUE]
    ELSE IF items[n].id = policy_id THEN [none |-> FALSE, detail |-> items[n].detail]
         ELSE DetailOf(items, policy_id, n + 1)

DecisionIds(decisions) == {decisions.items[n].id : n \in 1..Len(decisions.items)}

\* fault variant of InitialCounters: a month is counted before the first step
InitialCounters_Counted(decisions, policy_months_active) ==
    [policy_id \in DecisionIds(decisions) |->
        IF Falsy(policy_months_active) THEN 1
        ELSE Get(policy_months_active.items, policy_id, 0)]

\* policy_counters at the start of the call (engine.py line 85)
InitialCounters(decisions, policy_months_active) ==
    [policy_id \in DecisionIds(decisions) |->
        IF Falsy(policy_months_active) THEN 0
        ELSE Get(policy_months_active.items, policy_id, 0)]

\* the counters after a step (engine.py lines 283-286)
AdvanceCounters(policy_counters, decisions) ==
    [policy_id \in DOMAIN policy_counters |->
        LET d == DetailOf(decisions.items, policy_id, 1)
        IN  IF ~Falsy(decisions) /\ ~d.none /\ Get(d.detail, "intensity", 0) > 0
            THEN policy_counters[policy_id] + 1
            ELSE policy_counters[policy_id]]

\* _calculate_qalys, in thousandths of a QALY-year times 12 / dt_months
calculate_qalys(ltc_state, disability, alive, weights, dt_months) ==
    LET base(i) == IF ltc_state[i] = 0 THEN Get(weights, "healthy", 900)
                   ELSE IF ltc_state[i] = 1 THEN Get(weights, "ltc_mild", 800)
                   ELSE IF ltc_state[i] = 2 THEN Get(weights, "ltc_moderate", 650)
                   ELSE IF ltc_state[i] >= 3 THEN Get(weights, "ltc_severe", 450)
                   ELSE 500
        disability_factor == (Get(weights, "disability", 500) * PScale)
                                \div Max(Get(weights, "healthy", 900), 1)
        adjusted == [i \in Ind |->
                        ((base(i) * (IF disability[i] # 0 THEN disability_factor ELSE PScale))
                            \div PScale) * alive[i]]
    IN  SumOver(Ind, adjusted) * dt_months

\* _imd_gap, in thousandths
imd_gap(disability, imd, alive) ==
    LET living == {i \in Ind : alive[i] # 0}
        lo == CHOOSE v \in {imd[i] : i \in living} : \A i \in living : v <= imd[i]
        hi == CHOOSE v \in {imd[i] : i \in living} : \A i \in living : v >= imd[i]
        mean(S) == (Cardinality({i \in S : disability[i] # 0}) * PScale) \div Cardinality(S)
    IN  IF living = {} THEN 0
        ELSE mean({i \in living : imd[i] = hi}) - mean({i \in living : imd[i] = lo})

RECURSIVE SeqSum(_, _, _)
SeqSum(records, field, n) ==
    IF n = 0 THEN 0 ELSE records[n][field] + SeqSum(records, field, n - 1)

Abs(x) == IF x < 0 THEN -x ELSE x

\* fault variant of summarise_round: cost_value is the last month's cost
summarise_round_LastCost(monthly_records) ==
    IF Len(monthly_records) = 0 THEN [raised |-> TRUE]
    ELSE LET n == Len(monthly_records)
             total(field) == SeqSum(monthly_records, field, n)
         IN [raised |-> FALSE,
             value |->
               [incidence_total |-> total("incidence"),
                hospital_admissions_total |-> total("hospital_admissions"),
                bed_days_total |-> total("bed_days"),
                care_home_admissions_total |-> total("care_home_admissions"),
                deaths_total |-> total("deaths"),
                costs_total |-> total("costs_gbp"),
                qalys_total |-> total("qalys"),
                disability_prev_end |-> monthly_records[n].disability_prevalence,
                equity_gap_disability |-> monthly_records[n].equity_gap_disability,
                health_value |-> total("qalys"),
                cost_value |-> monthly_records[n].costs_gbp,
                capacity_value |-> -total("bed_days"),
                equity_value |-> -Abs(monthly_records[n].equity_gap_disability)]]

\* _summarise_round: KeyError on an empty list of records (no column exists)
summarise_round(monthly_records) ==
    IF Len(monthly_records) = 0 THEN [raised |-> TRUE]
    ELSE LET n == Len(monthly_records)
             total(field) == SeqSum(monthly_records, field, n)
         IN [raised |-> FALSE,
             value |->
               [incidence_total |-> total("incidence"),
                hospital_admissions_total |-> total("hospital_admissions"),
                bed_days_total |-> total("bed_days"),
                care_home_admissions_total |-> total("care_home_admissions"),
                deaths_total |-> total("deaths"),
                costs_total |-> total("costs_gbp"),
                qalys_total |-> total("qalys"),
                disability_prev_end |-> monthly_records[n].disability_prevalence,
                equity_gap_disability |-> monthly_records[n].equity_gap_disability,
                health_value |-> total("qalys"),
                cost_value |-> total("costs_gbp"),
                capacity_value |-> -total("bed_days"),
                equity_value |-> -Abs(monthly_records[n].equity_gap_disability)]]

Dimensions == {"health", "cost", "capacity", "equity"}
DIMENSION_DIRECTIONS == [health |-> 1, cost |-> -1, capacity |-> 1, equity |-> 1]

-----------------------------------------------------------------------------
(* Floating-point numbers of the scoring table.  A float is an integer      *)
(* number of units with at most FlBits significant bits; every operation    *)
(* rounds its exact result to the nearest float, ties to the even mantissa. *)

FlBits == 4

RECURSIVE Bits(_)
\* the number of binary digits of x >= 0
Bits(x) == IF x = 0 THEN 0 ELSE 1 + Bits(x \div 2)
RECURSIVE Pow2(_)
Pow2(s) == IF s = 0 THEN 1 ELSE 2 * Pow2(s - 1)

\* num / den (num >= 0, den > 0) rounded to the nearest integer, ties to even
RoundHalfEven(num, den) ==
    LET q == num \div den
        r == num % den
    IN  IF 2 * r > den THEN q + 1
        ELSE IF 2 * r < den THEN q
        ELSE IF q % 2 = 0 THEN q ELSE q + 1

\* the float nearest to num / den (den > 0)
Fl(num, den) ==
    LET a == Abs(num)
        s == Max(0, Bits(a \div den) - FlBits)
        m == RoundHalfEven(a, den * Pow2(s)) * Pow2(s)
    IN  IF num < 0 THEN -m ELSE m

\* the float nearest to the square root of y >= 0
FlSqrt(y) ==
    LET r == CHOOSE x \in 0..y : x * x <= y /\ (x + 1) * (x + 1) > y
        s == Max(0, Bits(r) - FlBits)
        k == r \div Pow2(s)
        mid == (2 * k + 1) * (2 * k + 1) * Pow2(s) * Pow2(s)
    IN  IF 4 * y > mid \/ (4 * y = mid /\ k % 2 = 1) THEN (k + 1) * Pow2(s)
        ELSE k * Pow2(s)

RECURSIVE FlSum(_, _)
\* Series.sum: the entries added one after the other
FlSum(values, n) ==
    IF n = 0 THEN 0 ELSE Fl(FlSum(values, n - 1) + values[n], 1)

\* 1.0 as a normalised score or a weight: scores and weights have four
\* binary places
ScoreOne == 2 * 2 * 2 * 2

-----------------------------------------------------------------------------
(* scoring.py *)

\* the minimum and the maximum of a column
SeqMin(values) == CHOOSE v \in {values[i] : i \in DOMAIN values} :
                        \A i \in DOMAIN values : v <= values[i]
SeqMax(values) == CHOOSE v \in {values[i] : i \in DOMAIN values} :
                        \A i \in DOMAIN values : v >= values[i]

\* _normalise: the normalised scores of a column (a sequence of floats);
\* math.isclose(x, 0.0) with the default tolerances holds for x = 0.0 only
normalise(series, method, direction) ==
    LET n == Len(series)
        values == [i \in 1..n |-> series[i] * direction]
        zeros == [i \in 1..n |-> 0]
    IN  IF method = "zscore"
        THEN LET mean == Fl(FlSum(values, n), n)
                 sqr == [i \in 1..n |->
                            LET d == Fl(mean - values[i], 1) IN Fl(d * d, 1)]
                 std == FlSqrt(Fl(FlSum(sqr, n), n))
             IN  IF std = 0 THEN zeros
                 ELSE [i \in 1..n |-> Fl(Fl(values[i] - mean, 1) * ScoreOne, std)]
        ELSE LET min_val == SeqMin(values)
                 max_val == SeqMax(values)
             IN  IF max_val = min_val THEN zeros
                 ELSE [i \in 1..n |->
                        Fl(Fl(values[i] - min_val, 1) * ScoreOne,
                           Fl(max_val - min_val, 1))]

\* scoring_cfg.weights in the order of the mapping
DimensionSeq == << "health", "cost", "capacity", "equity" >>
WeightSeq(scoring_cfg) ==
    SelectSeq(DimensionSeq, LAMBDA d : d \in DOMAIN scoring_cfg.weights)

\* the column <dimension>_value of the table as floats, 0.0 where the table
\* has no such column
ValueColumn(metrics, dimension) ==
    [i \in 1..Len(metrics) |->
        IF dimension \in DOMAIN metrics[i].values
        THEN Fl(metrics[i].values[dimension], 1) ELSE 0]

\* lines 38-45: the score columns
ScoreColumns(metrics, scoring_cfg) ==
    [d \in DOMAIN scoring_cfg.weights |->
        normalise(ValueColumn(metrics, d), scoring_cfg.normalisation,
                  Get(DIMENSION_DIRECTIONS, d, 1))]

RECURSIVE TotalScore(_, _, _, _, _)
\* lines 46-48: total_score += score * weight, dimension after dimension
TotalScore(scores, scoring_cfg, dims, i, n) ==
    IF n = 0 THEN 0
    ELSE Fl(TotalScore(scores, scoring_cfg, dims, i, n - 1)
                + Fl(scores[dims[n]][i]
                        * Fl(scoring_cfg.weights[dims[n]] * ScoreOne, PScale),
                     ScoreOne),
            1)

TotalScores(metrics, scoring_cfg) ==
    LET scores == ScoreColumns(metrics, scoring_cfg)
        dims == WeightSeq(scoring_cfg)
    IN  [i \in 1..Len(metrics) |-> TotalScore(scores, scoring_cfg, dims, i, Len(dims))]

\* the orders sort_values(ascending=False) may leave the rows in: the default
\* sort kind (quicksort) is not stable, rows of equal total_score may come
\* out in any order
SortOrders(total) ==
    LET n == Len(total)
    IN  {o \in [1..n -> 1..n] :
            /\ \A a, b \in 1..n : a # b => o[a] # o[b]
            /\ \A k \in 1..(n - 1) : total[o[k]] >= total[o[k + 1]]}

\* fault variant of score_round: the rank is assigned by the index label of
\* the row (its input position) instead of its position after the sort
score_round_RankByLabel(metrics, scoring_cfg, order) ==
    LET scores == ScoreColumns(metrics, scoring_cfg)
        total == TotalScores(metrics, scoring_cfg)
    IN  [k \in 1..Len(metrics) |->
            [team |-> metrics[order[k]].team,
             values |-> metrics[order[k]].values,
             scores |-> [d \in DOMAIN scoring_cfg.weights |-> scores[d][order[k]]],
             total_score |-> total[order[k]],
             rank |-> order[k]]]

\* score_round, with the order the sort left the rows in: the rows with their
\* scores and total_score, rank = position
score_round(metrics, scoring_cfg, order) ==
    LET scores == ScoreColumns(metrics, scoring_cfg)
        total == TotalScores(metrics, scoring_cfg)
    IN  [k \in 1..Len(metrics) |->
            [team |-> metrics[order[k]].team,
             values |-> metrics[order[k]].values,
             scores |-> [d \in DOMAIN scoring_cfg.weights |-> scores[d][order[k]]],
             total_score |-> total[order[k]],
             rank |-> k]]

\* _build_leaderboard: score_round on the one row of the round
build_leaderboard(summary, scoring_cfg) ==
    LET metrics_df == << [team |-> "current",
                          values |-> [health |-> summary.health_value,
                                      cost |-> summary.cost_value,
                                      capacity |-> summary.capacity_value,
                                      equity |-> summary.equity_value]] >>
    IN  score_round(metrics_df, scoring_cfg,
                    CHOOSE o \in SortOrders(TotalScores(metrics_df, scoring_cfg)) : TRUE)


-----------------------------------------------------------------------------
(* engine.py: the state of a simulate_round call *)

NoId == <<0, 1>>
\* fault variant of Zeros: a day more than a step is left of every stay
Zeros_Carried == [i \in Ind |-> 31]

Zeros == [i \in Ind |-> 0]
Running == {"loop", "disability", "hospital", "care", "mortality"}

\* the arguments of the call and what the caller keeps of it
Args(calls, cohortIn, months, decisions, shocks, seed, pma, snap) ==
    [calls |-> calls, cohortIn |-> cohortIn, months |-> months,
     decisions |-> decisions, shocks |-> shocks, seed |-> seed,
     policy_months_active |-> pma, snap |-> snap]

\* the local variables of simulate_round, before the call has set them
NoLocals ==
    [cohort |-> NoId, gen |-> NoId, alive |-> NoId, ltc_state |-> NoId,
     disability |-> NoId, hospitalised |-> NoId, care_home |-> NoId,
     hospital_los_remaining |-> NoId,
     policy_counters |-> EmptyDict, shock_mods |-> EmptyDict, base_los |-> 0,
     month |-> 0,
     features |-> EmptyDict, alive_mask |-> Zeros,
     policy_modifiers |-> EmptyDict, capacity_modifiers |-> EmptyDict,
     new_incidence |-> 0, new_hospital |-> 0, new_care |-> 0, bed_days |-> 0,
     timestep_results |-> <<>>, monthly_records |-> <<>>]

LocalArrays(f) ==
    {f.alive, f.ltc_state, f.disability, f.hospitalised, f.care_home,
     f.hospital_los_remaining} \ {NoId}

NoRet == [status |-> "none", error |-> "", cohort |-> NoId, timestep_results |-> <<>>,
          summary |-> EmptyDict, leaderboard |-> EmptyDict]
\* the call raised KeyError(key): nothing is returned
Raised(key) == [status |-> "raised", error |-> key, cohort |-> NoId,
                timestep_results |-> <<>>, summary |-> EmptyDict,
                leaderboard |-> EmptyDict]

NoPrev == [valid |-> FALSE, outputs |-> EmptyDict]

\* the shared objects of the process: the cached config bundle and the
\* catalogue of predefined shocks
ConfigId == <<0, 2>>
ShocksId == <<0, 3>>

\* what a call has read and written so far, and whether a step of it was
\* taken while the call of another team was under way
NoAcc == [reads |-> {}, writes |-> {}, concurrent |-> FALSE]
\* a step of a call: it reads the config bundle and `reads`, writes `writes`
Touch(a, reads, writes) ==
    [reads |-> a.reads \cup reads \cup {ConfigId},
     writes |-> a.writes \cup writes,
     concurrent |-> a.concurrent \/ Cardinality({u \in Teams : pc[u] \in Running}) >= 2]

\* the heap without the objects nothing refers to any more: the callers'
\* cohorts, the working cohort and local arrays of the running calls remain
LiveObjs(hd, frs, pcs) ==
    UNION {hd[t] : t \in Teams}
        \cup {frs[t].cohort : t \in {u \in Teams : pcs[u] \in Running}}
Collect(os, as, hd, frs, pcs) ==
    LET lo == LiveObjs(hd, frs, pcs) \cap DOMAIN os
        la == UNION {ArraysOf(os, c) : c \in lo}
                \cup UNION {LocalArrays(frs[t]) : t \in {u \in Teams : pcs[u] \in Running}}
    IN  [objs |-> [c \in lo |-> os[c]],
         arrs |-> [a \in la \cap DOMAIN as |-> as[a]]]

\* what a completed call handed back, by value
OutValue(os, as, r) ==
    [status |-> r.status,
     cohort |-> IF r.status = "returned" THEN Deref(os, as, r.cohort) ELSE EmptyDict,
     timestep_results |-> r.timestep_results,
     summary |-> r.summary,
     leaderboard |-> r.leaderboard]

InputsOf(f) ==
    [cohort |-> f.snap, months |-> f.months, decisions |-> f.decisions,
     shocks |-> f.shocks, seed |-> f.seed,
     policy_months_active |-> f.policy_months_active]

\* simulate_round lines 65-93: the call copies the cohort, makes its
\* generator and its local arrays, and reaches the loop
Enter(t, c, months, decisions, shocks, seed, pma) ==
    LET f == fr[t]
        base == nextId[t]
        copy == CohortCopy(objs, arrs, c, t, base)
        gen == rng(t, seed)
        local(j) == <<t, base + Len(ColSeq) + j>>
        os1 == Put(objs, copy.id, copy.obj)
        as1 == [a \in (DOMAIN arrs) \cup ArraysOf(os1, copy.id) |->
                    IF \E col \in Cols : copy.obj.data[col] = a
                    THEN copy.arrays[CHOOSE col \in Cols : copy.obj.data[col] = a]
                    ELSE arrs[a]]
        col(name) == as1[copy.obj.data[name]]
        as2 == Put(Put(Put(Put(Put(Put(as1,
                    local(1), AsBool(col("alive"))),
                    local(2), AsNum(col("ltc_state"))),
                    local(3), AsBool(col("disability"))),
                    local(4), AsBool(col("hospitalised"))),
                    local(5), AsBool(col("care_home"))),
                    local(6), Zeros)
        locals == [NoLocals EXCEPT
                    !.cohort = copy.id, !.gen = gen.id,
                    !.alive = local(1), !.ltc_state = local(2),
                    !.disability = local(3), !.hospitalised = local(4),
                    !.care_home = local(5), !.hospital_los_remaining = local(6),
                    !.policy_counters = InitialCounters(decisions, pma),
                    !.shock_mods = active_shock_modifiers(shocks.items),
                    !.base_los =
                        IF "hospital" \in DOMAIN cfg.transitions.length_of_stay
                        THEN cfg.transitions.length_of_stay["hospital"].mean
                        ELSE 7000,
                    !.features = BuildFeatures(col("age"), col("imd_quintile"),
                                    col("ltc_state"), col("disability"),
                                    col("hospitalised"))]
        f1 == Merge(Args(f.calls + 1, c, months, decisions, shocks, seed, pma,
                         Deref(objs, arrs, c)),
                    locals)
        frs == [fr EXCEPT ![t] = f1]
        pcs == [pc EXCEPT ![t] = "loop"]
        hd == [held EXCEPT ![t] = {c}]
        heap == Collect(os1, as2, hd, frs, pcs)
    IN  \* no caller catches the exception of a failed call: it stops there
        /\ pc[t] \in {"idle", "done"}
        /\ c \in held[t]
        /\ f.calls < MaxCalls
        \* the caller keeps the outcome of the call before this one to compare
        \* with, when this call repeats that call's inputs
        /\ prev' = [prev EXCEPT ![t] =
                        IF pc[t] # "idle" /\ InputsOf(f) = InputsOf(f1)
                        THEN [valid |-> TRUE, outputs |-> OutValue(objs, arrs, ret[t])]
                        ELSE NoPrev]
        /\ pc' = pcs
        /\ fr' = frs
        /\ held' = hd
        /\ objs' = heap.objs
        /\ arrs' = heap.arrs
        /\ gens' = Put(gens, gen.id, gen.state)
        /\ nextId' = [nextId EXCEPT ![t] = base + Len(ColSeq) + 7]
        /\ ret' = [ret EXCEPT ![t] = NoRet]
        /\ acc' = [acc EXCEPT ![t] =
                      Touch(NoAcc, {c, ShocksId} \cup ArraysOf(objs, c),
                            {copy.id, gen.id} \cup ArraysOf(os1, copy.id)
                                \cup {local(j) : j \in 1..6})]
        /\ UNCHANGED <<cfg, round, pure>>

\* an exception leaves simulate_round: nothing is returned, the working
\* cohort and the locals are dropped, the caller still holds its cohort
RaiseFrom(t, key, os, as) ==
    LET frs == [fr EXCEPT ![t] = Merge(@, NoLocals)]
        pcs == [pc EXCEPT ![t] = "error"]
        heap == Collect(os, as, held, frs, pcs)
    IN  /\ pc' = pcs
        /\ fr' = frs
        /\ ret' = [ret EXCEPT ![t] = Raised(key)]
        /\ objs' = heap.objs
        /\ arrs' = heap.arrs
        /\ UNCHANGED <<cfg, round, nextId, gens, held, prev, acc, pure>>

Raise(t, key) == RaiseFrom(t, key, objs, arrs)


-----------------------------------------------------------------------------
(* engine.py: one step of the loop, in the order of the code *)

Transitions == cfg.transitions.transitions
DtMonths == cfg.transitions.time_step_months

Prob(f, name, def) ==
    Masked(probability_for_transition(name, f.features, def.intercept,
                                      def.coefficients, DtMonths,
                                      f.policy_modifiers, f.shock_mods),
           f.alive_mask)

\* line 134: severe_probs
SevereProbs(progression_probs) ==
    [i \in Ind |-> Clip(progression_probs[i] \div 2, 0, PScale)]

\* fault variant of LtcTransitions: the progression mask takes every tier from
\* 1 up, so that tier 3 is set back to 2
LtcTransitions_Regress(ltc0, onset_probs, progression_probs, severe_probs, draw1, draw2, draw3) ==
    LET onset_mask == {i \in Ind : ltc0[i] = 0 /\ draw1[i] < onset_probs[i]}
        ltc1 == [i \in Ind |-> IF i \in onset_mask THEN 1 ELSE ltc0[i]]
        progress_mask == {i \in Ind : ltc1[i] >= 1 /\ draw2[i] < progression_probs[i]}
        ltc2 == [i \in Ind |-> IF i \in progress_mask THEN 2 ELSE ltc1[i]]
        severe_mask == {i \in Ind : ltc2[i] >= 2 /\ draw3[i] < severe_probs[i]}
    IN  [ltc_state |-> [i \in Ind |-> IF i \in severe_mask THEN 3 ELSE ltc2[i]],
         onset_mask |-> onset_mask]

\* lines 136-147: onset 0 -> 1, progression 1 -> 2, escalation >= 2 -> 3, each
\* on the array the one before left
LtcTransitions(ltc0, onset_probs, progression_probs, severe_probs, draw1, draw2, draw3) ==
    LET onset_mask == {i \in Ind : ltc0[i] = 0 /\ draw1[i] < onset_probs[i]}
        ltc1 == [i \in Ind |-> IF i \in onset_mask THEN 1 ELSE ltc0[i]]
        progress_mask == {i \in Ind : ltc1[i] = 1 /\ draw2[i] < progression_probs[i]}
        ltc2 == [i \in Ind |-> IF i \in progress_mask THEN 2 ELSE ltc1[i]]
        severe_mask == {i \in Ind : ltc2[i] >= 2 /\ draw3[i] < severe_probs[i]}
    IN  [ltc_state |-> [i \in Ind |-> IF i \in severe_mask THEN 3 ELSE ltc2[i]],
         onset_mask |-> onset_mask]

StepReads(f) == LocalArrays(f) \cup {f.cohort, f.gen} \cup ArraysOf(objs, f.cohort)

\* lines 96-147: features, active policies, capacity feedback, LTC transitions
StepLtc(t) ==
    LET f == fr[t]
        on == lookup(Transitions, "ltc_onset")
        pr == lookup(Transitions, "ltc_progression")
        work == Deref(objs, arrs, f.cohort)
        active == build_active_policies(cfg.policies, f.decisions, f.policy_counters)
        policy_modifiers == aggregate_policy_effects(active)
        f1 == [f EXCEPT
                !.alive_mask = AsNum(arrs[f.alive]),
                !.features = [@ EXCEPT
                    !.ltc_level = [i \in Ind |-> arrs[f.ltc_state][i] * PScale],
                    !.disability = [i \in Ind |-> arrs[f.disability][i] * PScale],
                    !.hospitalised = [i \in Ind |-> arrs[f.hospitalised][i] * PScale]],
                !.policy_modifiers = policy_modifiers,
                !.capacity_modifiers =
                    capacity_feedback(work.data, f.base_los,
                                      Merge(policy_modifiers, f.shock_mods)),
                !.new_incidence = 0, !.new_hospital = 0, !.new_care = 0,
                !.bed_days = 0]
        onset_probs == Prob(f1, "ltc_onset", on.value)
        progression_probs == Prob(f1, "ltc_progression", pr.value)
        severe_probs == SevereProbs(progression_probs)
        g == gens[f.gen]
        draw1 == Random(g, N)
        draw2 == Random(GenAfter(g, N), N)
        draw3 == Random(GenAfter(g, 2 * N), N)
        ltc == LtcTransitions(arrs[f.ltc_state], onset_probs, progression_probs,
                              severe_probs, draw1, draw2, draw3)
    IN  /\ pc[t] = "loop"
        /\ f.month < f.months
        /\ IF on.raised \/ pr.raised
           THEN Raise(t, IF on.raised THEN "ltc_onset" ELSE "ltc_progression")
           ELSE /\ arrs' = [arrs EXCEPT ![f.ltc_state] = ltc.ltc_state]
                /\ gens' = [gens EXCEPT ![f.gen] = GenAfter(g, 3 * N)]
                /\ fr' = [fr EXCEPT ![t] =
                            [f1 EXCEPT !.new_incidence = Cardinality(ltc.onset_mask)]]
                /\ pc' = [pc EXCEPT ![t] = "disability"]
                /\ acc' = [acc EXCEPT ![t] =
                              Touch(@, StepReads(f), {f.ltc_state, f.gen})]
                /\ UNCHANGED <<cfg, round, objs, nextId, ret, held, prev, pure>>

\* lines 160-169: recovery_probs, divided by the persistence multiplier
\* (floored at 1e-6, here at the smallest positive multiplier)
RecoveryProbs(f, def) ==
    LET recovery_raw == Prob(f, "disability_recovery", def)
        persistence == Max(Get(f.capacity_modifiers, "disability_persistence", PScale), 1)
    IN  [i \in Ind |-> (recovery_raw[i] * PScale) \div persistence]

\* lines 217-229: mortality_probs, multiplied by the mortality multiplier
\* and clipped
MortalityProbs(f, def) ==
    LET raw == Prob(f, "mortality", def)
    IN  [i \in Ind |->
            Clip((raw[i] * Get(f.capacity_modifiers, "mortality_multiplier", PScale))
                    \div PScale, 0, PScale)]

\* the vector a step compares against a draw for transition `name`, from
\* the features and modifiers f of the step
SampledProbs(f, name) ==
    LET def == Transitions[name]
    IN  IF name = "disability_recovery" THEN RecoveryProbs(f, def)
        ELSE IF name = "mortality" THEN MortalityProbs(f, def)
        ELSE Prob(f, name, def)

\* lines 98-112: what a step computes before it samples, for a cohort with
\* columns `data`
StepFrame(data, policy_modifiers, shock_mods) ==
    [features |-> BuildFeatures(data["age"], data["imd_quintile"], data["ltc_state"],
                                data["disability"], data["hospitalised"]),
     alive_mask |-> data["alive"],
     policy_modifiers |-> policy_modifiers,
     shock_mods |-> shock_mods,
     capacity_modifiers |->
        capacity_feedback(data, cfg.transitions.length_of_stay.hospital.mean,
                          Merge(policy_modifiers, shock_mods))]

\* fault variant of DisabilityTransitions: recovery is open to those who
\* were disabled when the step began
DisabilityTransitions_FromStart(dis0, disability_probs, recovery_probs, draw1, draw2) ==
    LET disability_onset == {i \in Ind : dis0[i] = 0 /\ draw1[i] < disability_probs[i]}
        dis1 == [i \in Ind |-> IF i \in disability_onset THEN 1 ELSE dis0[i]]
        disability_recover == {i \in Ind : dis0[i] # 0 /\ draw2[i] < recovery_probs[i]}
    IN  [i \in Ind |-> IF i \in disability_recover THEN 0 ELSE dis1[i]]

\* lines 171-177: the disability array after onset and recovery
DisabilityTransitions(dis0, disability_probs, recovery_probs, draw1, draw2) ==
    LET disability_onset == {i \in Ind : dis0[i] = 0 /\ draw1[i] < disability_probs[i]}
        dis1 == [i \in Ind |-> IF i \in disability_onset THEN 1 ELSE dis0[i]]
        disability_recover == {i \in Ind : dis1[i] # 0 /\ draw2[i] < recovery_probs[i]}
    IN  [i \in Ind |-> IF i \in disability_recover THEN 0 ELSE dis1[i]]

\* lines 149-177: disability onset, then recovery
StepDisability(t) ==
    LET f == fr[t]
        on == lookup(Transitions, "disability_onset")
        rc == lookup(Transitions, "disability_recovery")
        disability_probs == Prob(f, "disability_onset", on.value)
        recovery_probs == RecoveryProbs(f, rc.value)
        g == gens[f.gen]
        draw1 == Random(g, N)
        draw2 == Random(GenAfter(g, N), N)
        dis2 == DisabilityTransitions(arrs[f.disability], disability_probs,
                                      recovery_probs, draw1, draw2)
    IN  /\ pc[t] = "disability"
        /\ IF on.raised \/ rc.raised
           THEN Raise(t, IF on.raised THEN "disability_onset" ELSE "disability_recovery")
           ELSE /\ arrs' = [arrs EXCEPT ![f.disability] = dis2]
                /\ gens' = [gens EXCEPT ![f.gen] = GenAfter(g, 2 * N)]
                /\ pc' = [pc EXCEPT ![t] = "hospital"]
                /\ acc' = [acc EXCEPT ![t] =
                              Touch(@, {f.disability, f.gen}, {f.disability, f.gen})]
                /\ UNCHANGED <<cfg, round, objs, nextId, fr, ret, held, prev, pure>>

\* the k-th new admission (in index order) gets the k-th sample
Rank(S, i) == Cardinality({j \in S : j <= i})

\* fault variant of Discharged: a stay with no day left goes on
Discharged_BelowZero(hospitalised, hospital_los_remaining) ==
    {i \in Ind : hospitalised[i] # 0 /\ hospital_los_remaining[i] < 0}

\* lines 199-200: hospitalised & (hospital_los_remaining <= 0.0)
Discharged(hospitalised, hospital_los_remaining) ==
    {i \in Ind : hospitalised[i] # 0 /\ hospital_los_remaining[i] <= 0}

\* lines 179-200: admissions, lengths of stay, decrement and discharge
StepHospital(t) ==
    LET f == fr[t]
        ho == lookup(Transitions, "hospitalisation")
        hospital_probs == Prob(f, "hospitalisation", ho.value)
        g == gens[f.gen]
        draw == Random(g, N)
        hosp0 == arrs[f.hospitalised]
        new_admissions_mask == {i \in Ind : hosp0[i] = 0 /\ draw[i] < hospital_probs[i]}
        n == Cardinality(new_admissions_mask)
        hosp1 == [i \in Ind |-> IF i \in new_admissions_mask THEN 1 ELSE hosp0[i]]
        los_mean == f.capacity_modifiers["length_of_stay"]
        sample == Gamma(GenAfter(g, N), los_mean, n)
        los == [k \in 1..n |-> Max(1, sample[k])]
        rem0 == arrs[f.hospital_los_remaining]
        rem1 == [i \in Ind |->
                    IF i \in new_admissions_mask THEN los[Rank(new_admissions_mask, i)]
                    ELSE rem0[i]]
        rem2 == [i \in Ind |->
                    IF hosp1[i] # 0 THEN Max(0, rem1[i] - DtMonths * 30) ELSE rem1[i]]
        discharged == Discharged(hosp1, rem2)
        hosp2 == [i \in Ind |-> IF i \in discharged THEN 0 ELSE hosp1[i]]
    IN  /\ pc[t] = "hospital"
        /\ IF ho.raised THEN Raise(t, "hospitalisation")
           ELSE /\ arrs' = [arrs EXCEPT ![f.hospitalised] = hosp2,
                                        ![f.hospital_los_remaining] = rem2]
                /\ gens' = [gens EXCEPT ![f.gen] = GenAfter(g, N + n)]
                /\ fr' = [fr EXCEPT ![t] =
                            [f EXCEPT !.new_hospital = @ + n,
                                      !.bed_days = @ + SumOver(1..n, los)]]
                /\ pc' = [pc EXCEPT ![t] = "care"]
                /\ acc' = [acc EXCEPT ![t] =
                              Touch(@, {f.hospitalised, f.hospital_los_remaining, f.gen},
                                    {f.hospitalised, f.hospital_los_remaining, f.gen})]
                /\ UNCHANGED <<cfg, round, objs, nextId, ret, held, prev, pure>>

\* fault variant of CareMask: the disability is not looked at
CareMask_NotDisabled(care_home, disability, ltc_state, draw, care_probs) ==
    {i \in Ind : care_home[i] = 0 /\ ltc_state[i] >= 2 /\ draw[i] < care_probs[i]}

\* line 212: (~care_home) & disability & (ltc_state >= 2) & (draw < care_probs)
CareMask(care_home, disability, ltc_state, draw, care_probs) ==
    {i \in Ind : /\ care_home[i] = 0
                 /\ disability[i] # 0
                 /\ ltc_state[i] >= 2
                 /\ draw[i] < care_probs[i]}

\* lines 202-214: care home admissions
StepCare(t) ==
    LET f == fr[t]
        ca == lookup(Transitions, "care_home")
        care_probs == Prob(f, "care_home", ca.value)
        g == gens[f.gen]
        draw == Random(g, N)
        care0 == arrs[f.care_home]
        care_mask == CareMask(care0, arrs[f.disability], arrs[f.ltc_state], draw, care_probs)
    IN  /\ pc[t] = "care"
        /\ IF ca.raised THEN Raise(t, "care_home")
           ELSE /\ arrs' = [arrs EXCEPT ![f.care_home] =
                              [i \in Ind |-> IF i \in care_mask THEN 1 ELSE care0[i]]]
                /\ gens' = [gens EXCEPT ![f.gen] = GenAfter(g, N)]
                /\ fr' = [fr EXCEPT ![t] =
                            [f EXCEPT !.new_care = @ + Cardinality(care_mask)]]
                /\ pc' = [pc EXCEPT ![t] = "mortality"]
                /\ acc' = [acc EXCEPT ![t] =
                              Touch(@, {f.care_home, f.disability, f.ltc_state, f.gen},
                                    {f.care_home, f.gen})]
                /\ UNCHANGED <<cfg, round, objs, nextId, ret, held, prev, pure>>


UpdatedCols == <<"age", "ltc_state", "disability", "hospitalised", "care_home", "alive">>

\* fault variant of Cleared: the flags of the dead stay as they are
Cleared_Kept(a, death_mask) == a

\* lines 231-234: array[death_mask] = False
Cleared(a, death_mask) == [i \in Ind |-> IF i \in death_mask THEN 0 ELSE a[i]]

\* lines 216-286: mortality, the cohort's columns replaced by new arrays, the
\* month's metrics, the policy counters
StepMortality(t) ==
    LET f == fr[t]
        mo == lookup(Transitions, "mortality")
        mortality_probs == MortalityProbs(f, mo.value)
        g == gens[f.gen]
        draw == Random(g, N)
        alive0 == arrs[f.alive]
        death_mask == {i \in Ind : alive0[i] # 0 /\ draw[i] < mortality_probs[i]}
        clear(a) == Cleared(a, death_mask)
        as1 == [arrs EXCEPT ![f.alive] = clear(@)]
        as2 == [as1 EXCEPT ![f.hospitalised] = clear(@)]
        as3 == [as2 EXCEPT ![f.care_home] = clear(@)]
        as4 == [as3 EXCEPT ![f.disability] = clear(@)]
        alive == as4[f.alive]
        ltc_state == as4[f.ltc_state]
        disability == as4[f.disability]
        hospitalised == as4[f.hospitalised]
        care_home == as4[f.care_home]
        \* Update cohort arrays: every assignment stores a new array
        fresh(j) == <<t, nextId[t] + j - 1>>
        newval == [age |-> [i \in Ind |-> as4[objs[f.cohort].data["age"]][i] + DtMonths],
                   ltc_state |-> AsNum(ltc_state),
                   disability |-> AsNum(disability),
                   hospitalised |-> AsNum(hospitalised),
                   care_home |-> AsNum(care_home),
                   alive |-> AsNum(alive)]
        os1 == [objs EXCEPT ![f.cohort].data =
                    [col \in Cols |->
                        IF \E j \in 1..Len(UpdatedCols) : UpdatedCols[j] = col
                        THEN fresh(CHOOSE j \in 1..Len(UpdatedCols) : UpdatedCols[j] = col)
                        ELSE @[col]]]
        as5 == [a \in (DOMAIN as4) \cup {fresh(j) : j \in 1..Len(UpdatedCols)} |->
                    IF \E j \in 1..Len(UpdatedCols) : fresh(j) = a
                    THEN newval[UpdatedCols[CHOOSE j \in 1..Len(UpdatedCols) : fresh(j) = a]]
                    ELSE as4[a]]
        data == Deref(os1, as5, f.cohort).data
        \* metrics
        living == Count(alive)
        disability_prev ==
            (Cardinality({i \in Ind : disability[i] # 0 /\ alive[i] # 0}) * PScale)
                \div Max(living, 1)
        qalys == calculate_qalys(ltc_state, disability, alive, cfg.costs.qaly_weights,
                                 DtMonths)
        policy_cost == calculate_policy_cost(cfg.policies, f.decisions, N)
                            \div Max(f.months, 1)
        hospital_cost == f.bed_days * Get(cfg.costs.unit_costs, "hospital_bed_day", 0) * 100
        care_cost == Count(care_home) * 30
                        * Get(cfg.costs.unit_costs, "care_home_day", 0) * 100
        total_cost == policy_cost + hospital_cost + care_cost
        equity_gap == imd_gap(disability, data["imd_quintile"], alive)
        new_deaths == Cardinality(death_mask)
        metrics == [month |-> f.month + 1,
                    incidence |-> f.new_incidence,
                    hospital_admissions |-> f.new_hospital,
                    bed_days |-> f.bed_days,
                    care_home_admissions |-> f.new_care,
                    deaths |-> new_deaths,
                    costs_gbp |-> total_cost,
                    qalys |-> qalys,
                    disability_prevalence |-> disability_prev,
                    equity_gap_disability |-> equity_gap]
        result == [month_index |-> f.month + 1,
                   incidence |-> f.new_incidence,
                   hospital_admissions |-> f.new_hospital,
                   bed_days |-> f.bed_days,
                   care_home_admissions |-> f.new_care,
                   deaths |-> new_deaths,
                   costs_gbp |-> total_cost,
                   qalys |-> qalys,
                   disability_prevalence |-> disability_prev,
                   equity_gaps |-> [disability |-> equity_gap]]
        f1 == [f EXCEPT
                !.features = BuildFeatures(data["age"], data["imd_quintile"],
                                data["ltc_state"], data["disability"],
                                data["hospitalised"]),
                !.monthly_records = Append(@, metrics),
                !.timestep_results = Append(@, result),
                !.policy_counters = AdvanceCounters(@, f.decisions),
                !.month = @ + 1]
        frs == [fr EXCEPT ![t] = f1]
        pcs == [pc EXCEPT ![t] = "loop"]
        heap == Collect(os1, as5, held, frs, pcs)
    IN  /\ pc[t] = "mortality"
        /\ IF mo.raised THEN Raise(t, "mortality")
           ELSE /\ objs' = heap.objs
                /\ arrs' = heap.arrs
                /\ gens' = [gens EXCEPT ![f.gen] = GenAfter(g, N)]
                /\ nextId' = [nextId EXCEPT ![t] = @ + Len(UpdatedCols)]
                /\ fr' = frs
                /\ pc' = pcs
                /\ acc' = [acc EXCEPT ![t] =
                              Touch(@, StepReads(f),
                                    {f.alive, f.hospitalised, f.care_home, f.disability,
                                     f.gen, f.cohort}
                                        \cup {fresh(j) : j \in 1..Len(UpdatedCols)})]
                /\ UNCHANGED <<cfg, round, ret, held, prev, pure>>

\* lines 288-293, after the last step: months_elapsed, summary, scored table
Finish(t) ==
    LET f == fr[t]
        os1 == [objs EXCEPT ![f.cohort].months_elapsed = @ + f.months]
        summary == summarise_round(f.monthly_records)
        frs == [fr EXCEPT ![t] = Merge(@, NoLocals)]
        pcs == [pc EXCEPT ![t] = "done"]
        hd == [held EXCEPT ![t] = {f.cohortIn, f.cohort}]
        heap == Collect(os1, arrs, hd, frs, pcs)
    IN  /\ pc[t] = "loop"
        /\ f.month >= f.months
        /\ IF summary.raised THEN RaiseFrom(t, "incidence", os1, arrs)
           ELSE /\ ret' = [ret EXCEPT ![t] =
                              [status |-> "returned",
                               error |-> "",
                               cohort |-> f.cohort,
                               timestep_results |-> f.timestep_results,
                               summary |-> summary.value,
                               leaderboard |->
                                   build_leaderboard(summary.value, cfg.scoring)]]
                /\ objs' = heap.objs
                /\ arrs' = heap.arrs
                /\ fr' = frs
                /\ pc' = pcs
                /\ held' = hd
                /\ acc' = [acc EXCEPT ![t] = Touch(@, {f.cohort}, {f.cohort})]
                /\ UNCHANGED <<cfg, round, nextId, gens, prev, pure>>

-----------------------------------------------------------------------------
(* The callers *)

Seeds == 0..(NSeeds - 1)
Falls == [id |-> "falls_prevention", detail |-> [intensity |-> 8, coverage |-> 6]]
Smoking == [id |-> "smoking_cessation", detail |-> [intensity |-> 10, coverage |-> 5]]
Unknown == [id |-> "unknown_policy", detail |-> [intensity |-> 10, coverage |-> 10]]
\* an entry that gives no intensity, and one switched off
FallsDefault == [id |-> "falls_prevention", detail |-> [coverage |-> 6]]
SmokingOff == [id |-> "smoking_cessation", detail |-> [intensity |-> 0, coverage |-> 5]]

Pma4 == Some([falls_prevention |-> 4, smoking_cessation |-> 4])
Pma2 == Some([smoking_cessation |-> 2])

\* decisions with policy_months_active
DecisionArgs ==
    {<<None, None>>, <<Some(<<Falls>>), None>>, <<Some(<<Smoking>>), None>>,
     <<Some(<<Smoking>>), Pma4>>, <<Some(<<Smoking>>), Pma2>>,
     <<Some(<<Unknown>>), None>>, <<Some(<<FallsDefault, SmokingOff>>), None>>}
ShockChoices ==
    {None, Some(<<PREDEFINED_SHOCKS["flu_season"]>>),
     Some(<<PREDEFINED_SHOCKS["industrial_action"]>>)}

\* a caller of the engine's API: any arguments, on a cohort it holds
SimulateRound(t) ==
    \E c \in held[t], months \in 0..MaxMonths, d \in DecisionArgs,
       shocks \in ShockChoices, seed \in Seeds :
        Enter(t, c, months, d[1], shocks, seed, d[2])

Step(t) ==
    \/ StepLtc(t)
    \/ StepDisability(t)
    \/ StepHospital(t)
    \/ StepCare(t)
    \/ StepMortality(t)
    \/ Finish(t)

\* every team holds the baseline cohort made for it: object <<t, 1>> with
\* arrays <<t, 2>> ...
InitHeap(sessionSeed) ==
    /\ objs = [c \in {<<t, 1>> : t \in Teams} |->
                [data |-> [col \in Cols |-> <<c[1], 1 + ColIndex(col)>>],
                 months_elapsed |-> 0]]
    /\ arrs = [a \in {<<t, 1 + j>> : t \in Teams, j \in 1..Len(ColSeq)} |->
                create_baseline_cohort(sessionSeed + a[1])[ColSeq[a[2] - 1]]]
    /\ nextId = [t \in Teams |-> Len(ColSeq) + 2]
    /\ held = [t \in Teams |-> {<<t, 1>>}]
    /\ gens = [g \in {<<0, 0>>} |-> 0]
    /\ pc = [t \in Teams |-> "idle"]
    /\ fr = [t \in Teams |->
                Merge(Args(0, NoId, 0, None, None, 0, None, EmptyDict), NoLocals)]
    /\ ret = [t \in Teams |-> NoRet]
    /\ prev = [t \in Teams |-> NoPrev]
    /\ acc = [t \in Teams |-> NoAcc]

\* selected_session.random_seed; team t's baseline is made with seed + t
SessionSeeds == {1}

NoRound == [months |-> 0, shocks |-> None]

Init ==
    /\ cfg \in {Bundle(m) : m \in {"none"} \cup TransitionNames}
    /\ round = NoRound
    /\ \E s \in SessionSeeds : InitHeap(s)
    /\ pure = EmptyDict

Next == \E t \in {1} : SimulateRound(t) \/ Step(t)

Spec == Init /\ [][Next]_vars


-----------------------------------------------------------------------------
(* One task per team: the rounds of the teams run concurrently *)

\* the decisions of the teams in a round
RoundDecisions == {None, Some(<<Falls>>)}

\* a team's round run while no other call is under way (the loop of the
\* Lecturer Console): months and shocks are the round's, policy_months_active
\* is not passed
RunAlone(t) ==
    /\ fr[t].calls = 0
    /\ \A u \in Teams \ {t} : pc[u] \notin Running
    /\ \E d \in RoundDecisions, seed \in Seeds :
            Enter(t, <<t, 1>>, round.months, d, round.shocks, seed, None)

\* the same round of the team run again as one of the concurrent tasks, once
\* every team's round has been run alone
RunConcurrently(t) ==
    /\ fr[t].calls >= 1
    /\ \A u \in Teams : fr[u].calls >= 1 /\ (pc[u] \in Running => fr[u].calls >= 2)
    /\ Enter(t, fr[t].cohortIn, fr[t].months, fr[t].decisions, fr[t].shocks,
             fr[t].seed, fr[t].policy_months_active)

InitConc ==
    /\ cfg \in {Bundle("none"), Bundle("care_home")}
    /\ round \in [months : 1..MaxMonths, shocks : ShockChoices]
    /\ \E s \in SessionSeeds : InitHeap(s)
    /\ pure = EmptyDict

NextConc == \E t \in Teams : RunAlone(t) \/ RunConcurrently(t) \/ Step(t)

SpecConc == InitConc /\ [][NextConc]_vars

-----------------------------------------------------------------------------
(* calculate_policy_cost applied to the decisions of a team *)

CostIntensities == {0, 6, 10}
CostCoverages == {0, 4, 5}
CostSizes == {0, 1, N, 1000}

\* the details of a decision: intensity and coverage, either may be left out
CostDetails ==
    {[intensity |-> i, coverage |-> c] : i \in CostIntensities, c \in CostCoverages}
        \cup {[intensity |-> i] : i \in CostIntensities}
        \cup {[coverage |-> c] : c \in CostCoverages}
        \cup {EmptyDict}

CostIds == {"falls_prevention", "smoking_cessation", "community_rehab", "unknown_policy"}

\* no mapping, the empty mapping, one decision, or two decisions
CostDecisions ==
    {None, Some(<<>>)}
        \cup {Some(<< [id |-> p, detail |-> d] >>) : p \in CostIds, d \in CostDetails}
        \cup {Some(<< [id |-> "smoking_cessation", detail |-> [intensity |-> 10, coverage |-> 5]],
                      [id |-> p, detail |-> [intensity |-> 6, coverage |-> 4]] >>) :
                p \in CostIds \ {"smoking_cessation"}}

InitCost ==
    /\ cfg = Bundle("none")
    /\ round = NoRound
    /\ \E s \in SessionSeeds : InitHeap(s)
    /\ pure \in [decisions : CostDecisions, cohort_size : CostSizes,
                 called : {FALSE}, cost : {0}]

\* cost = calculate_policy_cost(bundle.policies, decisions, cohort_size)
CalculatePolicyCost ==
    /\ ~pure.called
    /\ pure' = [pure EXCEPT
                    !.called = TRUE,
                    !.cost = calculate_policy_cost(cfg.policies, pure.decisions,
                                                   pure.cohort_size)]
    /\ UNCHANGED <<cfg, round, objs, arrs, nextId, pc, gens, fr, ret, held, prev, acc>>

NextCost == CalculatePolicyCost

SpecCost == InitCost /\ [][NextCost]_vars

-----------------------------------------------------------------------------
(* score_round applied to the table of a round: one row per team *)

MaxRows == 3

HealthValues == {160, 224}
CostValues == {80, 112}

\* the rows a team may contribute: with all four dimension values, or
\* without the equity column
ScoreRowValues(withEquity) ==
    {IF withEquity
     THEN [health |-> h, cost |-> c, capacity |-> -48, equity |-> -2]
     ELSE [health |-> h, cost |-> c, capacity |-> -48] :
        h \in HealthValues, c \in CostValues}

\* the tables of 1..MaxRows rows; the rows are labelled by their position
ScoreTables ==
    UNION {{[i \in 1..n |-> [team |-> i, values |-> vs[i]]] :
                vs \in [1..n -> ScoreRowValues(e)]} :
            n \in 1..MaxRows, e \in BOOLEAN}

ScoringConfigs ==
    {[weights |-> ScoringWeights, normalisation |-> m] : m \in {"zscore", "minmax"}}

InitScore ==
    /\ cfg = Bundle("none")
    /\ round = NoRound
    /\ \E s \in SessionSeeds : InitHeap(s)
    /\ pure \in [metrics : ScoreTables, scoring : ScoringConfigs,
                 called : {FALSE}, scored : {<< >>}]

\* scored = score_round(metrics, scoring_cfg)
ScoreRound ==
    /\ ~pure.called
    /\ \E order \in SortOrders(TotalScores(pure.metrics, pure.scoring)) :
            pure' = [pure EXCEPT
                        !.called = TRUE,
                        !.scored = score_round(pure.metrics, pure.scoring, order)]
    /\ UNCHANGED <<cfg, round, objs, arrs, nextId, pc, gens, fr, ret, held, prev, acc>>

NextScore == ScoreRound

SpecScore == InitScore /\ [][NextScore]_vars

-----------------------------------------------------------------------------
(* ensure_competing_risk applied to the probability vectors of competing   *)
(* transitions                                                             *)

\* probabilities in thousandths: of two competing transitions, of three
TwoRiskValues == {0, 200, 500, 700, 1000}
ThreeRiskValues == {0, 400, 700}

RiskVectors(values) == [Ind -> {Rat(x, PScale) : x \in values}]

RiskInputs ==
    {<< a, b >> : a, b \in RiskVectors(TwoRiskValues)}
        \cup {<< a, b, c >> : a, b, c \in RiskVectors(ThreeRiskValues)}

InitRisk ==
    /\ cfg = Bundle("none")
    /\ round = NoRound
    /\ \E s \in SessionSeeds : InitHeap(s)
    /\ pure \in [probabilities : RiskInputs, calls : {0}, adjusted : {<< >>}]

\* adjusted = ensure_competing_risk(probabilities), then once more on the
\* result
EnsureCompetingRisk ==
    /\ pure.calls < 2
    /\ pure' = [pure EXCEPT
                    !.calls = @ + 1,
                    !.adjusted = ensure_competing_risk(
                                    IF pure.calls = 0 THEN pure.probabilities
                                    ELSE pure.adjusted)]
    /\ UNCHANGED <<cfg, round, objs, arrs, nextId, pc, gens, fr, ret, held, prev, acc>>

NextRisk == EnsureCompetingRisk

SpecRisk == InitRisk /\ [][NextRisk]_vars

-----------------------------------------------------------------------------
(* One step's modifiers and probability vectors, for modifiers of any size *)

\* modifiers in thousandths
RecoveryShifts == {0, 1000, 2500}
MortalityShifts == {-1000, 0, 1000}
CommunityModifiers == {-500, 0, 200}

StepPolicyModifiers ==
    {EmptyDict}
        \cup {[disability_recovery |-> r, mortality |-> m, capacity_community |-> c] :
                r \in RecoveryShifts, m \in MortalityShifts, c \in CommunityModifiers}

\* no shock, a predefined shock, or a shock with modifiers of its own
StepShocks ==
    {<< >>, << PREDEFINED_SHOCKS["industrial_action"] >>,
     << PREDEFINED_SHOCKS["heatwave"] >>,
     << [name |-> "closure", duration_months |-> 1,
         modifiers |-> [mortality |-> 500, capacity_community |-> -150]] >>}

\* a baseline cohort with some individuals in hospital or in a care home
StepCohorts ==
    {[create_baseline_cohort(s) EXCEPT !["hospitalised"] = h, !["care_home"] = c] :
        s \in Seeds, h \in [Ind -> {0, 1}], c \in [Ind -> {0, 1}]}

NoFrame == [features |-> EmptyDict]

InitStep ==
    /\ cfg = Bundle("none")
    /\ round = NoRound
    /\ \E s \in SessionSeeds : InitHeap(s)
    /\ pure \in [data : StepCohorts, policy_modifiers : StepPolicyModifiers,
                 shocks : StepShocks, sampled : {FALSE}, frame : {NoFrame},
                 probs : {EmptyDict}]

\* lines 96-229 without the draws: the modifiers and the probability
\* vectors of one step
SampleStep ==
    LET shock_mods == active_shock_modifiers(pure.shocks)
        f == StepFrame(pure.data, pure.policy_modifiers, shock_mods)
    IN  /\ ~pure.sampled
        /\ pure' = [pure EXCEPT
                        !.sampled = TRUE,
                        !.frame = f,
                        !.probs = [name \in TransitionNames \cup {"ltc_severe"} |->
                                    IF name = "ltc_severe"
                                    THEN SevereProbs(SampledProbs(f, "ltc_progression"))
                                    ELSE SampledProbs(f, name)]]
        /\ UNCHANGED <<cfg, round, objs, arrs, nextId, pc, gens, fr, ret, held, prev, acc>>

NextStep == SampleStep

SpecStep == InitStep /\ [][NextStep]_vars

-----------------------------------------------------------------------------
(* hazard_to_probability and log_hazard_to_probability on numbers of any   *)
(* size                                                                    *)

\* linear predictors and hazards in thousandths, steps in months
LinearPredictors ==
    {-800000, -5000, -1000, 0, 1000, 7000, 100000, ExpOverflow, ExpOverflow + 1, 800000}
Hazards == {-2000, -1, 0, 500, 2000, 1000000}
StepLengths == {0, 1, 3, 12}

InitHazard ==
    /\ cfg = Bundle("none")
    /\ round = NoRound
    /\ \E s \in SessionSeeds : InitHeap(s)
    /\ pure \in [lp : LinearPredictors, hazard : Hazards, dt_months : StepLengths,
                 called : {FALSE}, from_lp : {0}, from_hazard : {0}]

HazardToProbability ==
    /\ ~pure.called
    /\ pure' = [pure EXCEPT
                    !.called = TRUE,
                    !.from_lp = log_hazard_to_probability(pure.lp, pure.dt_months),
                    !.from_hazard = hazard_to_probability(pure.hazard, pure.dt_months)]
    /\ UNCHANGED <<cfg, round, objs, arrs, nextId, pc, gens, fr, ret, held, prev, acc>>

NextHazard == HazardToProbability

SpecHazard == InitHazard /\ [][NextHazard]_vars

-----------------------------------------------------------------------------
(* db/crud.py and the Lecturer Console: rounds, decisions and results of   *)
(* one session.  `pure` holds the database.                                *)

MaxRounds == 2
MaxClock == 4

\* lock_ts, locked_ts of a row that has none
NoTime == 0

EmptyDb == [rounds |-> << >>, decisions |-> << >>, results |-> << >>, now |-> 0]

\* the row of the Decision table for the team and the round, 0 if none
DecisionRow(db, team_id, round_id) ==
    IF \E k \in 1..Len(db.decisions) :
            db.decisions[k].team_id = team_id /\ db.decisions[k].round_id = round_id
    THEN CHOOSE k \in 1..Len(db.decisions) :
            db.decisions[k].team_id = team_id /\ db.decisions[k].round_id = round_id
    ELSE 0

\* start_round: the row's id is its index (one session)
start_round(db, index, months, shock) ==
    [db EXCEPT
        !.rounds = Append(@, [index |-> index, months_advanced |-> months,
                              shock_json |-> shock, lock_ts |-> NoTime]),
        !.now = @ + 1]

\* lock_round
lock_round(db, round_id) ==
    [db EXCEPT !.rounds[round_id].lock_ts = db.now + 1, !.now = @ + 1]

\* upsert_decision from line 120 on, with the row the select of lines
\* 114-120 gave (0 if none): the new row is inserted, or the row found gets
\* the attributes that were assigned, and the transaction commits
save_decision(db, k, team_id, round_id, policies, budget_spent, locked) ==
    LET now == db.now + 1
    IN  IF k = 0
        THEN [db EXCEPT
                !.decisions = Append(@, [team_id |-> team_id, round_id |-> round_id,
                                         policies_json |-> policies,
                                         budget_spent |-> budget_spent,
                                         locked_ts |-> IF locked THEN now ELSE NoTime]),
                !.now = now]
        ELSE [db EXCEPT
                !.decisions[k] = [@ EXCEPT !.policies_json = policies,
                                           !.budget_spent = budget_spent,
                                           !.locked_ts = IF locked THEN now ELSE @],
                !.now = now]

\* upsert_decision, run with no other call between its select and its commit
upsert_decision(db, team_id, round_id, policies, budget_spent, locked) ==
    save_decision(db, DecisionRow(db, team_id, round_id), team_id, round_id, policies,
                  budget_spent, locked)

\* record_result; the metrics are those of the engine run on the decisions
record_result(db, team_id, round_id, decisions) ==
    [db EXCEPT !.results = Append(@, [team_id |-> team_id, round_id |-> round_id,
                                      decisions |-> decisions])]

RECURSIVE RecordResults(_, _, _)
\* 5_Lecturer_Console.py lines 111-178: for team in teams, with the decisions
\* of the current round
RecordResults(db, round_id, teams) ==
    IF teams = {} THEN db
    ELSE LET team == CHOOSE t \in teams : \A u \in teams : t <= u
             k == DecisionRow(db, team, round_id)
             decisions_payload == IF k = 0 THEN << >> ELSE db.decisions[k].policies_json
         IN  RecordResults(record_result(db, team, round_id, decisions_payload),
                           round_id, teams \ {team})

DecisionPayloads == {<< >>, <<Falls>>, <<Smoking>>}

InitSession ==
    /\ cfg = Bundle("none")
    /\ round = NoRound
    /\ \E s \in SessionSeeds : InitHeap(s)
    /\ pure = EmptyDb

\* 5_Lecturer_Console.py lines 57-73: the form "Start a new round"
StartRound ==
    /\ Len(pure.rounds) < MaxRounds
    /\ pure.now < MaxClock
    /\ \E months \in 1..MaxMonths, shock \in {"None", "industrial_action"} :
            pure' = start_round(pure, Len(pure.rounds) + 1, months, shock)
    /\ UNCHANGED <<cfg, round, objs, arrs, nextId, pc, gens, fr, ret, held, prev, acc>>

\* a call of crud.upsert_decision for a round of the session
UpsertDecision ==
    /\ pure.now < MaxClock
    /\ \E team_id \in Teams, round_id \in 1..Len(pure.rounds),
          policies \in DecisionPayloads, locked \in BOOLEAN :
            pure' = upsert_decision(pure, team_id, round_id, policies,
                                    calculate_policy_cost(cfg.policies, Some(policies), N),
                                    locked)
    /\ UNCHANGED <<cfg, round, objs, arrs, nextId, pc, gens, fr, ret, held, prev, acc>>

\* 5_Lecturer_Console.py lines 108-179: the button "Advance round"
AdvanceRound ==
    /\ pure.rounds # << >>
    /\ pure.now < MaxClock
    /\ LET current_round == Len(pure.rounds)
       IN  pure' = lock_round(RecordResults(pure, current_round, Teams), current_round)
    /\ UNCHANGED <<cfg, round, objs, arrs, nextId, pc, gens, fr, ret, held, prev, acc>>

NextSession == StartRound \/ UpsertDecision \/ AdvanceRound

SpecSession == InitSession /\ [][NextSession]_vars

-----------------------------------------------------------------------------
(* upsert_decision called from several browser sessions: every call has   *)
(* its own database session, and another call may select or commit        *)
(* between the select and the commit of a call                            *)

MaxUpserts == 3
Callers == 1..2

NoCall == [at |-> "idle"]

InitUpsert ==
    /\ cfg = Bundle("none")
    /\ round = NoRound
    /\ \E s \in SessionSeeds : InitHeap(s)
    /\ pure = [db |-> start_round(EmptyDb, 1, 1, "None"),
               calls |-> [c \in Callers |-> NoCall],
               started |-> 0]

\* crud.py lines 114-120: the select of the call
SelectDecision(c) ==
    /\ pure.calls[c].at = "idle"
    /\ pure.started < MaxUpserts
    /\ \E team_id \in Teams, policies \in DecisionPayloads, locked \in BOOLEAN :
            pure' = [pure EXCEPT
                        !.started = @ + 1,
                        !.calls[c] = [at |-> "selected",
                                      team_id |-> team_id, round_id |-> 1,
                                      policies |-> policies, locked |-> locked,
                                      decision |-> DecisionRow(pure.db, team_id, 1)]]
    /\ UNCHANGED <<cfg, round, objs, arrs, nextId, pc, gens, fr, ret, held, prev, acc>>

\* crud.py lines 121-147: the row is made or changed, and committed
SaveDecision(c) ==
    /\ pure.calls[c].at = "selected"
    /\ LET call == pure.calls[c]
       IN  pure' = [pure EXCEPT
                        !.db = save_decision(@, call.decision, call.team_id, call.round_id,
                                    call.policies,
                                    calculate_policy_cost(cfg.policies, Some(call.policies), N),
                                    call.locked),
                        !.calls[c] = NoCall]
    /\ UNCHANGED <<cfg, round, objs, arrs, nextId, pc, gens, fr, ret, held, prev, acc>>

NextUpsert == \E c \in Callers : SelectDecision(c) \/ SaveDecision(c)

SpecUpsert == InitUpsert /\ [][NextUpsert]_vars

-----------------------------------------------------------------------------
(* capacity_feedback on cohorts with few or no beds                        *)

\* beds per 1000 people, in thousandths
HospitalBeds == {0, 50, 3000, 600000}
CareBeds == {0, 5000, 600000}

CapacityModifiers ==
    {EmptyDict, [capacity_hospital |-> 200],
     [capacity_hospital |-> -200, capacity_community |-> -150],
     [capacity_community |-> 200]}

CapacityCohorts ==
    {[hospitalised |-> h, care_home |-> c,
      hospital_beds_per_1k |-> [i \in Ind |-> hb],
      care_home_beds_per_1k |-> [i \in Ind |-> cb]] :
        h \in [Ind -> {0, 1}], c \in [Ind -> {0, 1}], hb \in HospitalBeds, cb \in CareBeds}

NoFeedback == [length_of_stay |-> 0]

InitCapacity ==
    /\ cfg = Bundle("none")
    /\ round = NoRound
    /\ \E s \in SessionSeeds : InitHeap(s)
    /\ pure \in [data : CapacityCohorts, modifiers : CapacityModifiers,
                 base_length_of_stay : {cfg.transitions.length_of_stay.hospital.mean},
                 called : {FALSE}, feedback : {NoFeedback}]

CapacityFeedback ==
    /\ ~pure.called
    /\ pure' = [pure EXCEPT
                    !.called = TRUE,
                    !.feedback = capacity_feedback(pure.data, pure.base_length_of_stay,
                                                   pure.modifiers)]
    /\ UNCHANGED <<cfg, round, objs, arrs, nextId, pc, gens, fr, ret, held, prev, acc>>

NextCapacity == CapacityFeedback

SpecCapacity == InitCapacity /\ [][NextCapacity]_vars

-----------------------------------------------------------------------------
(* ActivePolicy.effect_strength on policies and decisions of any kind      *)

\* intensity in tenths, months, coefficient in thousandths
StrengthIntensities == {-5, 0, 3, 5, 10, 15}
StrengthMonths == {-1, 0, 1, 2, 3, 6, 12, 48}
StrengthLags == {-2, 0, 1, 3}
StrengthReturns == {-500, 0, 200, 500, 1000, 1500}

ActivePolicies ==
    {[id |-> "policy",
      policy |-> [id |-> "policy", cost_per_capita |-> 0, effects |-> EmptyDict,
                  lag_months |-> lag, diminishing_return |-> dim],
      intensity |-> intensity, months_active |-> months] :
        lag \in StrengthLags, dim \in StrengthReturns,
        intensity \in StrengthIntensities, months \in StrengthMonths}

InitStrength ==
    /\ cfg = Bundle("none")
    /\ round = NoRound
    /\ \E s \in SessionSeeds : InitHeap(s)
    /\ pure \in [ap : ActivePolicies, called : {FALSE}, strength : {0}]

EffectStrength ==
    /\ ~pure.called
    /\ pure' = [pure EXCEPT !.called = TRUE, !.strength = effect_strength(pure.ap)]
    /\ UNCHANGED <<cfg, round, objs, arrs, nextId, pc, gens, fr, ret, held, prev, acc>>

NextStrength == EffectStrength

SpecStrength == InitStrength /\ [][NextStrength]_vars

-----------------------------------------------------------------------------
(* aggregate_policy_effects and active_shock_modifiers on policies and     *)
(* shocks that share keys                                                  *)

SharingPolicies ==
    {[id |-> "a", cost_per_capita |-> 0, lag_months |-> 0, diminishing_return |-> 0,
      effects |-> [mortality |-> -1000, ltc_onset |-> -2000]],
     [id |-> "b", cost_per_capita |-> 0, lag_months |-> 0, diminishing_return |-> 500,
      effects |-> [mortality |-> -500]],
     [id |-> "c", cost_per_capita |-> 0, lag_months |-> 0, diminishing_return |-> 0,
      effects |-> [mortality |-> 300, hospitalisation |-> -1000]]}

\* full or half intensity after six months, no intensity, no month yet
SharingActive ==
    {[id |-> p.id, policy |-> p, intensity |-> v[1], months_active |-> v[2]] :
        p \in SharingPolicies, v \in {<<10, 6>>, <<5, 6>>, <<0, 6>>, <<10, 0>>}}

\* the sequences of up to `n` elements of S for different ids or names
DistinctSeqs(S, n, label(_)) ==
    UNION {{q \in [1..k -> S] : \A i, j \in 1..k : i # j => label(q[i]) # label(q[j])} :
            k \in 0..n}

AggregateInputs ==
    [active : DistinctSeqs(SharingActive, 3, LAMBDA ap : ap.id),
     shocks : DistinctSeqs({PREDEFINED_SHOCKS[k] : k \in DOMAIN PREDEFINED_SHOCKS}, 2,
                           LAMBDA sh : sh.name),
     called : {FALSE}, policy_modifiers : {EmptyDict}, shock_modifiers : {EmptyDict}]

InitAggregate ==
    /\ cfg = Bundle("none")
    /\ round = NoRound
    /\ \E s \in SessionSeeds : InitHeap(s)
    /\ pure \in AggregateInputs

Aggregate ==
    /\ ~pure.called
    /\ pure' = [pure EXCEPT
                    !.called = TRUE,
                    !.policy_modifiers = aggregate_policy_effects(pure.active),
                    !.shock_modifiers = active_shock_modifiers(pure.shocks)]
    /\ UNCHANGED <<cfg, round, objs, arrs, nextId, pc, gens, fr, ret, held, prev, acc>>

NextAggregate == Aggregate

SpecAggregate == InitAggregate /\ [][NextAggregate]_vars

-----------------------------------------------------------------------------
(* Claims *)

Complete(bundle) == DOMAIN bundle.transitions.transitions = TransitionNames
Ended(t) == pc[t] \in {"done", "error"}

\* the state of the individuals as a call carries it: the local arrays while
\* the call runs, the returned cohort when it has returned
LocalView(as, f) ==
    [alive |-> as[f.alive], ltc_state |-> as[f.ltc_state],
     disability |-> as[f.disability], hospitalised |-> as[f.hospitalised],
     care_home |-> as[f.care_home]]
CohortView(os, as, c) ==
    LET d == Deref(os, as, c).data
    IN  [alive |-> d["alive"], ltc_state |-> d["ltc_state"],
         disability |-> d["disability"], hospitalised |-> d["hospitalised"],
         care_home |-> d["care_home"]]

\* a step of team t's call that leaves a state of the individuals: the entry
\* (from the cohort passed in), a phase of a step, or the return
Entering(t) == pc[t] \in {"idle", "done"} /\ pc'[t] = "loop"
Advancing(t) ==
    /\ pc'[t] \in Running \cup {"done"}
    /\ pc[t] \in Running \/ Entering(t)
    /\ <<pc[t], fr[t]>> # <<pc'[t], fr'[t]>> \/ arrs # arrs'
Before(t) ==
    IF pc[t] \in Running THEN LocalView(arrs, fr[t])
    ELSE CohortView(objs, arrs, fr'[t].cohortIn)
After(t) ==
    IF pc'[t] \in Running THEN LocalView(arrs', fr'[t])
    ELSE CohortView(objs', arrs', ret'[t].cohort)

\* C1: with a complete config, every call of simulate_round returns, with
\* exactly `months` timestep results whose month_index is 1, 2, ..., months,
\* and a cohort whose months_elapsed is the input's plus `months`.
C1_ExactlyMonthsSteps ==
    \A t \in Teams :
        (Ended(t) /\ Complete(cfg)) =>
            /\ ret[t].status = "returned"
            /\ Len(ret[t].timestep_results) = fr[t].months
            /\ \A k \in 1..fr[t].months : ret[t].timestep_results[k].month_index = k
            /\ objs[ret[t].cohort].months_elapsed
                    = fr[t].snap.months_elapsed + fr[t].months

\* C2: death is terminal.  Across every entry, phase and return of a call, an
\* individual who is not alive stays not alive and keeps its LTC tier, and
\* whoever is not alive is neither hospitalised, in a care home nor disabled.
C2_DeathTerminalStep(t) ==
    Advancing(t) =>
        \A i \in Ind :
            /\ After(t).alive[i] = 0 =>
                    /\ After(t).hospitalised[i] = 0
                    /\ After(t).care_home[i] = 0
                    /\ After(t).disability[i] = 0
            /\ Before(t).alive[i] = 0 =>
                    /\ After(t).alive[i] = 0
                    /\ After(t).ltc_state[i] = Before(t).ltc_state[i]
C2_DeathIsTerminal == [][\A t \in Teams : C2_DeathTerminalStep(t)]_vars

\* a second call, of at least one step, has returned for a cohort in which
\* somebody had died during the first call
C2_Witness ==
    /\ pc[1] = "done" /\ fr[1].calls = 2 /\ fr[1].months >= 1
    /\ fr[1].snap.months_elapsed > 0
    /\ \E i \in Ind : fr[1].snap.data["alive"][i] = 0

\* C3: across every entry, phase and return of a call the LTC tier of every
\* individual does not decrease, and it stays in {0, 1, 2, 3}.
C3_TierStep(t) ==
    Advancing(t) =>
        \A i \in Ind :
            /\ After(t).ltc_state[i] >= Before(t).ltc_state[i]
            /\ After(t).ltc_state[i] \in 0..3
C3_TierNonDecreasing == [][\A t \in Teams : C3_TierStep(t)]_vars

\* a call has returned a cohort in which somebody's tier went up by two or
\* more, to tier 3
C3_Witness ==
    /\ pc[1] = "done"
    /\ LET out == Deref(objs, arrs, ret[1].cohort).data["ltc_state"]
           in == fr[1].snap.data["ltc_state"]
       IN  \E i \in Ind : in[i] + 2 <= out[i] /\ out[i] = 3

\* C4: a call that repeats the inputs (cohort contents, months, decisions,
\* shocks, seed, policy_months_active) of the call before it ends with the
\* same outputs as that call: returned cohort, timestep results, summary and
\* scored table.  Nothing the call before left behind changes the outcome.
C4_Deterministic ==
    \A t \in Teams :
        (Ended(t) /\ prev[t].valid) => OutValue(objs, arrs, ret[t]) = prev[t].outputs

\* a repeated call of two steps has returned, and numbers drawn decided its
\* outcome: somebody died in it
C4_Witness ==
    /\ pc[1] = "done" /\ prev[1].valid /\ fr[1].months = MaxMonths
    /\ \E k \in 1..Len(ret[1].timestep_results) : ret[1].timestep_results[k].deaths > 0

\* C5: from the entry of a call on, the cohort passed in keeps the contents
\* it had at the entry; the working cohort (later the returned one) is
\* another object, and neither it nor the local arrays of the call share an
\* array with the cohort passed in.
C5_InputUnchanged ==
    \A t \in Teams :
        pc[t] # "idle" =>
            /\ fr[t].cohortIn \in DOMAIN objs
            /\ Deref(objs, arrs, fr[t].cohortIn) = fr[t].snap
            /\ pc[t] \in Running =>
                    /\ fr[t].cohort # fr[t].cohortIn
                    /\ ArraysOf(objs, fr[t].cohort) \cap ArraysOf(objs, fr[t].cohortIn) = {}
                    /\ LocalArrays(fr[t]) \cap ArraysOf(objs, fr[t].cohortIn) = {}
            /\ pc[t] = "done" =>
                    /\ ret[t].cohort # fr[t].cohortIn
                    /\ ArraysOf(objs, ret[t].cohort) \cap ArraysOf(objs, fr[t].cohortIn) = {}

\* a call has returned a cohort in which somebody is no longer alive, older
\* than the cohort passed in
C5_Witness ==
    /\ pc[1] = "done"
    /\ LET out == Deref(objs, arrs, ret[1].cohort)
       IN  /\ \E i \in Ind : out.data["alive"][i] = 0 /\ fr[1].snap.data["alive"][i] = 1
           /\ \A i \in Ind : out.data["age"][i] > fr[1].snap.data["age"][i]
           /\ out.months_elapsed > fr[1].snap.months_elapsed

\* the transition definition the config lacks
MissingTransition(bundle) ==
    CHOOSE m \in TransitionNames : m \notin DOMAIN bundle.transitions.transitions

\* C6: with one of the seven transition definitions missing, a call of at
\* least one month never returns and never completes a step; once it has
\* ended it has raised KeyError for the missing definition, it has returned
\* nothing, and the cohort passed in has the contents it had at the entry.
C6_MissingTransitionRaises ==
    \A t \in Teams :
        (~Complete(cfg) /\ pc[t] # "idle" /\ fr[t].months >= 1) =>
            /\ pc[t] # "done"
            /\ fr[t].month = 0
            /\ pc[t] = "error" =>
                    /\ ret[t] = Raised(MissingTransition(cfg))
                    /\ held[t] = {fr[t].cohortIn}
                    /\ Deref(objs, arrs, fr[t].cohortIn) = fr[t].snap

\* the mortality definition is missing, and a call has raised for it: the
\* LTC, disability, hospital and care phases had acted on the working state
C6_Witness ==
    /\ pc[1] = "error" /\ fr[1].months >= 1
    /\ ret[1].error = "mortality"
    /\ "mortality" \notin DOMAIN cfg.transitions.transitions

\* the ids of the policy catalogue
CatalogueIds(policies_cfg) ==
    {policies_cfg.policies[k].id : k \in 1..Len(policies_cfg.policies)}

\* the decisions name an id the catalogue lacks
NamesUnknownPolicy(policies_cfg, decisions) ==
    /\ ~Falsy(decisions)
    /\ \E n \in 1..Len(decisions.items) :
            decisions.items[n].id \notin CatalogueIds(policies_cfg)

\* the decisions name nothing but ids the catalogue lacks
NamesOnlyUnknownPolicies(policies_cfg, decisions) ==
    /\ ~Falsy(decisions)
    /\ \A n \in 1..Len(decisions.items) :
            decisions.items[n].id \notin CatalogueIds(policies_cfg)

\* C7 as stated: a call whose decisions name a policy id absent from the
\* catalogue raises, it does not return a round's outputs.
C7_UnknownPolicyRaises ==
    \A t \in Teams :
        (Ended(t) /\ NamesUnknownPolicy(cfg.policies, fr[t].decisions)) =>
            ret[t].status = "raised"

\* C7: a policy id absent from the catalogue is skipped.  Decisions that name
\* only such ids give no active policy, no policy modifier and a policy cost
\* of 0, and with a complete config a call of at least one month returns its
\* `months` timestep results.
C7_UnknownPolicySkipped ==
    \A t \in Teams :
        (pc[t] # "idle" /\ NamesOnlyUnknownPolicies(cfg.policies, fr[t].decisions)) =>
            /\ build_active_policies(cfg.policies, fr[t].decisions,
                                     fr[t].policy_counters) = <<>>
            /\ fr[t].policy_modifiers = EmptyDict
            /\ calculate_policy_cost(cfg.policies, fr[t].decisions, N) = 0
            /\ (Ended(t) /\ Complete(cfg) /\ fr[t].months >= 1) =>
                    /\ ret[t].status = "returned"
                    /\ Len(ret[t].timestep_results) = fr[t].months

\* a call with an unknown policy id has returned the results of its months
C7_Witness ==
    /\ pc[1] = "done" /\ fr[1].months = MaxMonths
    /\ NamesOnlyUnknownPolicies(cfg.policies, fr[1].decisions)
    /\ Len(ret[1].timestep_results) = MaxMonths

\* the chosen policies of the catalogue whose lag is longer than the call
LaggingBeyond(f) ==
    {n \in 1..Len(f.decisions.items) :
        LET found == PolicyLookup(cfg.policies.policies, f.decisions.items[n].id,
                                  Len(cfg.policies.policies))
        IN  ~found.none /\ found.policy.lag_months > f.months}

\* the active policy of decision n with the months it has been active now
ActiveNow(f, n) ==
    LET item == f.decisions.items[n]
    IN  [id |-> item.id,
         policy |-> PolicyLookup(cfg.policies.policies, item.id,
                                 Len(cfg.policies.policies)).policy,
         intensity |-> Get(item.detail, "intensity", 10),
         months_active |-> Get(f.policy_counters, item.id, 0)]

\* the policy modifiers without the policies of decisions `out`
ModifiersWithout(f, out) ==
    LET active == build_active_policies(cfg.policies, f.decisions, f.policy_counters)
        kept == SelectSeq(active,
                    LAMBDA ap : \A n \in out : f.decisions.items[n].id # ap.id)
    IN  aggregate_policy_effects(kept)

LaggingThroughout(f) ==
    {n \in LaggingBeyond(f) :
        Get(f.policy_months_active.items, f.decisions.items[n].id, 0) + f.months - 1
            <= ActiveNow(f, n).policy.lag_months}

C8_Independent ==
    \A t \in Teams :
        /\ (Ended(t) /\ prev[t].valid) => OutValue(objs, arrs, ret[t]) = prev[t].outputs
        /\ acc[t].writes \cap {ConfigId, ShocksId} = {}
        /\ \A u \in Teams \ {t} :
                acc[t].writes \cap (acc[u].reads \cup acc[u].writes) = {}

\* both teams' concurrent calls have returned, each after steps taken while
\* the other's call was under way, and numbers drawn decided the outcome
C8_Witness ==
    /\ \A t \in Teams :
            /\ pc[t] = "done" /\ prev[t].valid /\ acc[t].concurrent
            /\ fr[t].months = MaxMonths
    /\ fr[1].seed # fr[2].seed
    /\ \E k \in 1..Len(ret[1].timestep_results) : ret[1].timestep_results[k].deaths > 0

\* the cost of decision n by the formula: cost_per_capita x cohort_size x
\* intensity x coverage for a policy of the catalogue (intensity and coverage
\* in tenths, 1.0 when left out; the cost in hundredths of a pound)
CostTerm(policies_cfg, items, cohort_size, n) ==
    IF items[n].id \notin CatalogueIds(policies_cfg) THEN 0
    ELSE LET policy == policies_cfg.policies[
                            CHOOSE k \in 1..Len(policies_cfg.policies) :
                                policies_cfg.policies[k].id = items[n].id]
         IN  policy.cost_per_capita * cohort_size
                * (IF "intensity" \in DOMAIN items[n].detail
                   THEN items[n].detail["intensity"] ELSE 10)
                * (IF "coverage" \in DOMAIN items[n].detail
                   THEN items[n].detail["coverage"] ELSE 10)

\* C10: calculate_policy_cost is the sum over the chosen policies of
\* cost_per_capita x cohort_size x intensity x coverage; 1000 people with one
\* policy of cost 50 at intensity 1.0 and coverage 0.5 cost exactly 25000; no
\* mapping and the empty mapping cost 0; a chosen policy of positive cost per
\* capita, intensity and coverage (for a cohort of at least one) costs more
\* than 0.
C10_PolicyCost ==
    pure.called =>
        LET items == pure.decisions.items
            size == pure.cohort_size
        IN  /\ pure.cost = SumOver(1..Len(items),
                                   [n \in 1..Len(items) |->
                                        CostTerm(cfg.policies, items, size, n)])
            /\ (pure.decisions =
                    Some(<< [id |-> "falls_prevention",
                             detail |-> [intensity |-> 10, coverage |-> 5]] >>)
                /\ size = 1000) => pure.cost = 25000 * 100
            /\ Falsy(pure.decisions) => pure.cost = 0
            /\ (/\ size > 0
                /\ \E n \in 1..Len(items) :
                        CostTerm(cfg.policies, items, 1, n) > 0) => pure.cost > 0

\* the cost of the scenario has been calculated: 1000 people, one policy of
\* cost 50 at intensity 1.0 and coverage 0.5
C10_Witness ==
    /\ pure.called
    /\ pure.cohort_size = 1000
    /\ pure.decisions = Some(<< [id |-> "falls_prevention",
                                 detail |-> [intensity |-> 10, coverage |-> 5]] >>)
    /\ pure.cost = 2500000

\* the total of a scored row by the formula: the weighted sum of the row's
\* normalised scores, dimension after dimension
WeightedSum(row, scoring_cfg) ==
    LET dims == WeightSeq(scoring_cfg)
    IN  TotalScore([d \in DOMAIN row.scores |-> << row.scores[d] >>], scoring_cfg,
                   dims, 1, Len(dims))

\* C11: score_round returns the n rows of its input in descending
\* total_score order with rank 1, 2, ..., n in that order: a row with a
\* higher total_score has a smaller rank; of two rows the one with the higher
\* total has rank 1; total_score is the weighted sum of the row's normalised
\* scores.
C11_RankedByTotal ==
    pure.called =>
        LET out == pure.scored
            n == Len(pure.metrics)
        IN  /\ Len(out) = n
            /\ {out[k].team : k \in 1..n} = 1..n
            /\ \A k \in 1..n :
                    /\ out[k].rank = k
                    /\ out[k].values = pure.metrics[out[k].team].values
                    /\ out[k].total_score = WeightedSum(out[k], pure.scoring)
            /\ \A a, b \in 1..n :
                    out[a].total_score > out[b].total_score => out[a].rank < out[b].rank
            /\ n = 2 => /\ {out[1].rank, out[2].rank} = {1, 2}
                        /\ out[1].total_score >= out[2].total_score

\* three rows have been scored, with three different totals, and the row
\* that came last in the input is ranked first
C11_Witness ==
    /\ pure.called /\ Len(pure.scored) = 3
    /\ pure.scored[1].team = 3
    /\ pure.scored[1].total_score > pure.scored[2].total_score
    /\ pure.scored[2].total_score > pure.scored[3].total_score

\* the sum of the vectors for individual i, vector by vector
RiskSum(vectors, i) == RiskTotal(vectors, i, Len(vectors))

\* 1 + 1e-8
RiskBound == [n |-> 100000001, d |-> 100000000]

\* C12: ensure_competing_risk returns its input unchanged when every
\* individual's probabilities sum to at most 1, so a second application
\* changes nothing; when some individual's sum exceeds 1, every individual's
\* returned probabilities sum to at most 1 + 1e-8, an individual over 1 gets
\* each probability divided by the individual's total (its share), and an
\* individual at or under 1 keeps its probabilities.
C12_CompetingRisk ==
    pure.calls >= 1 =>
        LET in == pure.probabilities
            out == pure.adjusted
            sums == [i \in Ind |-> RiskSum(in, i)]
            within == \A i \in Ind : RatLe(sums[i], RatOne)
        IN  /\ Len(out) = Len(in)
            /\ within => out = in
            /\ (pure.calls = 2 /\ within) => out = ensure_competing_risk(in)
            /\ \A i \in Ind :
                    /\ RatLe(RiskSum(out, i), RiskBound)
                    /\ RatLe(sums[i], RatOne) =>
                            \A k \in 1..Len(in) : out[k][i] = in[k][i]
                    /\ (pure.calls = 1 /\ ~RatLe(sums[i], RatOne)) =>
                            \A k \in 1..Len(in) : out[k][i] = RatDiv(in[k][i], sums[i])

\* three vectors have been adjusted: one individual's probabilities summed
\* to more than 1 and were shrunk to sum to 1, the other's summed to less
\* than 1 and were kept
C12_Witness ==
    /\ pure.calls = 1 /\ Len(pure.probabilities) = 3
    /\ ~RatLe(RiskSum(pure.probabilities, 1), RatOne)
    /\ RiskSum(pure.adjusted, 1) = RatOne
    /\ RiskSum(pure.probabilities, 2) # RatOne
    /\ RatLe(RiskSum(pure.probabilities, 2), RatOne)
    /\ \E k \in 1..3 : pure.adjusted[k][2].n > 0

InUnitRange(probs) == \A i \in Ind : probs[i] >= 0 /\ probs[i] <= PScale

\* C13: every probability vector a step compares against a draw has its
\* entries in [0, 1] for any modifiers: onset, progression, escalation,
\* disability onset, disability recovery after the division by the
\* persistence multiplier, hospitalisation, care-home admission, and
\* mortality after the multiplication by the mortality multiplier.
C13_ProbabilitiesInUnitRange ==
    pure.sampled => \A name \in DOMAIN pure.probs : InUnitRange(pure.probs[name])

\* C14: log_hazard_to_probability returns a value in [0, 1] for every real
\* linear predictor and every dt_months >= 0; hazard_to_probability gives
\* probability 0 for a negative hazard and for dt_months = 0.
C14_ProbabilityInUnitRange ==
    pure.called =>
        /\ pure.from_lp >= 0 /\ pure.from_lp <= PScale
        /\ pure.from_hazard >= 0 /\ pure.from_hazard <= PScale
        /\ pure.hazard < 0 => pure.from_hazard = 0
        /\ pure.dt_months = 0 => pure.from_hazard = 0

\* every row of the table has the same value in the dimension (a missing
\* column is 0.0 in every row)
ConstantDimension(metrics, dimension) ==
    \A i, j \in 1..Len(metrics) :
        ValueColumn(metrics, dimension)[i] = ValueColumn(metrics, dimension)[j]

\* C15: in score_round, a dimension in which every row has the same value
\* gives normalised score 0 to every row, under z-score and under min-max;
\* in particular a one-row table gets total_score 0 and rank 1.
C15_ConstantDimensionScoresZero ==
    pure.called =>
        /\ \A d \in DOMAIN pure.scoring.weights :
                ConstantDimension(pure.metrics, d) =>
                    \A k \in 1..Len(pure.scored) : pure.scored[k].scores[d] = 0
        /\ Len(pure.metrics) = 1 =>
                pure.scored[1].total_score = 0 /\ pure.scored[1].rank = 1

\* C16: in the table score_round returns, rows with equal total_score keep
\* their relative input order (row i of the input is labelled team i) and
\* get distinct consecutive ranks.
C16_TiesKeepInputOrder ==
    pure.called =>
        \A k, l \in 1..Len(pure.scored) :
            /\ pure.scored[k].rank = k
            /\ (k < l /\ pure.scored[k].total_score = pure.scored[l].total_score) =>
                    pure.scored[k].team < pure.scored[l].team

\* the rows of the Decision table for the round
DecisionsOf(db, round_id) ==
    {db.decisions[k] : k \in {j \in 1..Len(db.decisions) : db.decisions[j].round_id = round_id}}

C17_LockedStep ==
    \A round_id \in 1..Len(pure.rounds) :
        pure.rounds[round_id].lock_ts # NoTime =>
            DecisionsOf(pure', round_id) = DecisionsOf(pure, round_id)

\* C17: once lock_round has set a round's lock_ts, no decision for that
\* round is created or changed.
C17_LockedRoundIsFrozen == [][C17_LockedStep]_vars

\* the k-th vector of draws of the phase call t is about to run
DrawsOf(t, k) == Random(GenAfter(gens[fr[t].gen], (k - 1) * N), N)

PhaseOrder ==
    {<<"loop", "disability">>, <<"disability", "hospital">>, <<"hospital", "care">>,
     <<"care", "mortality">>, <<"mortality", "loop">>}

C18_Order(t) ==
    (pc[t] \in Running /\ pc'[t] \in Running /\ pc'[t] # pc[t]) =>
        <<pc[t], pc'[t]>> \in PhaseOrder

\* onset, progression, escalation: each reads the tier the one before left
C18_LtcPhase(t) ==
    (pc[t] = "loop" /\ pc'[t] = "disability") =>
        LET f == fr'[t]
            progression == SampledProbs(f, "ltc_progression")
        IN  \A i \in Ind :
                LET a0 == arrs[f.ltc_state][i]
                    a1 == IF a0 = 0 /\ DrawsOf(t, 1)[i] < SampledProbs(f, "ltc_onset")[i]
                          THEN 1 ELSE a0
                    a2 == IF a1 = 1 /\ DrawsOf(t, 2)[i] < progression[i] THEN 2 ELSE a1
                    a3 == IF a2 >= 2 /\ DrawsOf(t, 3)[i] < SevereProbs(progression)[i]
                          THEN 3 ELSE a2
                IN  arrs'[f.ltc_state][i] = a3

\* disability onset, then recovery of whoever is disabled by then
C18_DisabilityPhase(t) ==
    (pc[t] = "disability" /\ pc'[t] = "hospital") =>
        LET f == fr[t]
        IN  \A i \in Ind :
                LET d0 == arrs[f.disability][i]
                    d1 == IF d0 = 0
                             /\ DrawsOf(t, 1)[i] < SampledProbs(f, "disability_onset")[i]
                          THEN 1 ELSE d0
                    d2 == IF d1 # 0
                             /\ DrawsOf(t, 2)[i] < SampledProbs(f, "disability_recovery")[i]
                          THEN 0 ELSE d1
                IN  arrs'[f.disability][i] = d2

\* care-home admission of whoever is, by then, disabled at tier 2 or 3
C18_CarePhase(t) ==
    (pc[t] = "care" /\ pc'[t] = "mortality") =>
        LET f == fr[t]
        IN  \A i \in Ind :
                arrs'[f.care_home][i] =
                    IF /\ arrs[f.care_home][i] = 0
                       /\ arrs[f.disability][i] # 0
                       /\ arrs[f.ltc_state][i] >= 2
                       /\ DrawsOf(t, 1)[i] < SampledProbs(f, "care_home")[i]
                    THEN 1 ELSE arrs[f.care_home][i]

\* mortality comes last, on the state the other transitions left
C18_MortalityPhase(t) ==
    (pc[t] = "mortality" /\ pc'[t] = "loop") =>
        \A i \in Ind :
            LET dies == /\ Before(t).alive[i] # 0
                        /\ DrawsOf(t, 1)[i] < SampledProbs(fr[t], "mortality")[i]
            IN  /\ After(t).alive[i] = (IF dies THEN 0 ELSE Before(t).alive[i])
                /\ After(t).ltc_state[i] = Before(t).ltc_state[i]

\* C18: within a monthly step the transitions run in the fixed order LTC
\* onset, progression, escalation, disability onset, disability recovery,
\* hospital admission with length-of-stay decrement and discharge, care-home
\* admission, mortality, and the eligibility test of each reads the state
\* the earlier transitions of the same step left.
C18_FixedOrder ==
    [][\A t \in Teams :
            /\ C18_Order(t)
            /\ C18_LtcPhase(t)
            /\ C18_DisabilityPhase(t)
            /\ C18_CarePhase(t)
            /\ C18_MortalityPhase(t)]_vars

\* somebody who was not disabled when the step began has become disabled
\* and been admitted to a care home in that step (the only admission of the
\* step, the only resident), and the step is about to sample mortality
C18_Witness ==
    /\ pc[1] = "mortality"
    /\ fr[1].new_care = 1
    /\ \E i \in Ind :
            /\ fr[1].features.disability[i] = 0
            /\ arrs[fr[1].disability][i] # 0
            /\ arrs[fr[1].care_home][i] # 0
            /\ \A j \in Ind \ {i} : arrs[fr[1].care_home][j] = 0

\* the modifiers with the policy's and the shock's values for `key` added up
SummedModifiers(policy_modifiers, shock_mods, keys) ==
    [key \in keys \cap ((DOMAIN policy_modifiers) \cup (DOMAIN shock_mods)) |->
        Get(policy_modifiers, key, 0) + Get(shock_mods, key, 0)]

\* C19: a modifier that a policy and a shock both carry is applied as the
\* sum of the two: for a transition name, the probabilities are those of
\* the summed intercept shift; for capacity_hospital and capacity_community,
\* capacity_feedback gets the sum.
C19_ModifiersAddUp ==
    pure.sampled =>
        LET f == pure.frame
            summed == SummedModifiers(f.policy_modifiers, f.shock_mods, TransitionNames)
        IN  /\ \A name \in TransitionNames :
                    pure.probs[name] =
                        SampledProbs([f EXCEPT !.policy_modifiers = Merge(@, summed),
                                               !.shock_mods =
                                                    [key \in (DOMAIN @) \ TransitionNames |-> @[key]]],
                                     name)
            /\ f.capacity_modifiers =
                    capacity_feedback(pure.data,
                                      cfg.transitions.length_of_stay.hospital.mean,
                                      SummedModifiers(f.policy_modifiers, f.shock_mods,
                                                      CapacityKeys))

\* fraction_occupied x 1000 / beds_per_1000, beds floored at 0.1; thousandths
Occupancy(occupied, beds) ==
    (Fraction(occupied) * PScale) \div Max(Mean(beds), 100)

Pressure(occupancy) == Max(0, occupancy - PScale)

\* C20: capacity_feedback returns length-of-stay = base x (1 + 0.3 x
\* hospital pressure), mortality multiplier = 1 + 0.2 x hospital pressure and
\* disability persistence = 1 + 0.15 x care pressure, each multiplied by
\* (1 + modifier) for the capacity modifier supplied (capacity_hospital for
\* the first two, capacity_community for the third); the pressure is
\* max(0, occupancy - 1) with the beds floored at 0.1; at or below capacity
\* and without modifiers the result is the base value, 1 and 1.
C20_CapacityFeedback ==
    pure.called =>
        LET d == pure.data
            hp == Pressure(Occupancy(d["hospitalised"], d["hospital_beds_per_1k"]))
            cp == Pressure(Occupancy(d["care_home"], d["care_home_beds_per_1k"]))
            hospital == PScale + Get(pure.modifiers, "capacity_hospital", 0)
            community == PScale + Get(pure.modifiers, "capacity_community", 0)
        IN  /\ pure.feedback["length_of_stay"] =
                    MulDiv(MulDiv(PScale + (hp * 3) \div 10, hospital),
                           pure.base_length_of_stay)
            /\ pure.feedback["mortality_multiplier"] =
                    MulDiv(PScale + (hp * 2) \div 10, hospital)
            /\ pure.feedback["disability_persistence"] =
                    MulDiv(PScale + (cp * 15) \div 100, community)
            /\ (hp = 0 /\ cp = 0 /\ pure.modifiers = EmptyDict) =>
                    pure.feedback = [length_of_stay |-> pure.base_length_of_stay,
                                     mortality_multiplier |-> PScale,
                                     disability_persistence |-> PScale]

\* C21: effect_strength is clip(intensity, 0, 1) x ramp x diminishing
\* multiplier; it is 0 when months_active <= lag_months or intensity <= 0,
\* lies in [0, 1], does not decrease when months_active or the intensity
\* grows, treats a negative lag_months as 0 and a diminishing-return
\* coefficient outside [0, 1] as the nearest of 0 and 1.
C21_EffectStrength ==
    pure.called =>
        LET ap == pure.ap
            dim == ap.policy.diminishing_return
        IN  /\ pure.strength =
                    (Clip(ap.intensity * 100, 0, PScale) * ramp(ap)
                        * diminishing_multiplier(ap)) \div (PScale * PScale)
            /\ (ap.months_active <= ap.policy.lag_months \/ ap.intensity <= 0) =>
                    pure.strength = 0
            /\ pure.strength >= 0 /\ pure.strength <= PScale
            /\ \A other \in ActivePolicies :
                    (/\ other.policy = ap.policy
                     /\ other.months_active >= ap.months_active
                     /\ other.intensity >= ap.intensity) =>
                        effect_strength(other) >= pure.strength
            /\ ap.policy.lag_months < 0 =>
                    pure.strength = effect_strength([ap EXCEPT !.policy.lag_months = 0])
            /\ pure.strength =
                    effect_strength([ap EXCEPT !.policy.diminishing_return =
                                        IF dim < 0 THEN 0
                                        ELSE IF dim > PScale THEN PScale ELSE dim])

\* the strength of a policy with a negative lag and a coefficient above 1,
\* at an intensity below 1: positive and below the intensity
C21_Witness ==
    /\ pure.called
    /\ pure.ap.policy.lag_months < 0
    /\ pure.ap.policy.diminishing_return > PScale
    /\ pure.ap.intensity = 5
    /\ pure.ap.months_active = 2
    /\ pure.strength > 0 /\ pure.strength < 500

\* clip(intensity, 0, 1) x ramp x diminishing multiplier, from the fields
StrengthOf(ap) ==
    LET c == Clip(ap.intensity * 100, 0, PScale)
        lag == Max(ap.policy.lag_months, 0)
        r == IF ap.months_active <= lag THEN 0
             ELSE Clip(PScale - ExpNeg(((ap.months_active - lag) * PScale) \div 6), 0, PScale)
        dim == Clip(ap.policy.diminishing_return, 0, PScale)
    IN  (c * r * (PScale - (dim * (PScale - c)) \div PScale)) \div (PScale * PScale)

\* the sum, per key, of value x strength over the policies of positive
\* strength
SummedEffects(active) ==
    LET strong == {n \in 1..Len(active) : StrengthOf(active[n]) > 0}
    IN  [key \in UNION {DOMAIN active[n].policy.effects : n \in strong} |->
            SumOver({n \in strong : key \in DOMAIN active[n].policy.effects},
                    [n \in 1..Len(active) |->
                        IF key \in DOMAIN active[n].policy.effects
                        THEN (active[n].policy.effects[key] * StrengthOf(active[n]))
                                \div PScale
                        ELSE 0])]

\* the sum, per key, of the shocks' values
SummedShocks(shocks) ==
    [key \in UNION {DOMAIN shocks[n].modifiers : n \in 1..Len(shocks)} |->
        SumOver({n \in 1..Len(shocks) : key \in DOMAIN shocks[n].modifiers},
                [n \in 1..Len(shocks) |->
                    IF key \in DOMAIN shocks[n].modifiers THEN shocks[n].modifiers[key]
                    ELSE 0])]

Reordered(q) ==
    {[k \in 1..Len(q) |-> q[o[k]]] :
        o \in {f \in [1..Len(q) -> 1..Len(q)] : \A i, j \in 1..Len(q) : i # j => f[i] # f[j]}}

C22_Sums ==
    pure.called =>
        /\ pure.policy_modifiers = SummedEffects(pure.active)
        /\ pure.shock_modifiers = SummedShocks(pure.shocks)
        /\ \A q \in Reordered(pure.active) :
                aggregate_policy_effects(q) = pure.policy_modifiers
        /\ \A q \in Reordered(pure.shocks) :
                active_shock_modifiers(q) = pure.shock_modifiers

C22_InputsKept == pure'.active = pure.active /\ pure'.shocks = pure.shocks

StepEnds(t) == pc[t] = "mortality" /\ pc'[t] = "loop" /\ fr'[t].month = fr[t].month + 1

\* the intensity build_active_policies gives the entry (policies.py line 43)
ActiveIntensity(detail) == Get(detail, "intensity", 10)

C23_CounterStep(t) ==
    StepEnds(t) =>
        \A n \in 1..Len(fr[t].decisions.items) :
            LET item == fr[t].decisions.items[n]
            IN  fr'[t].policy_counters[item.id] =
                    fr[t].policy_counters[item.id]
                        + (IF ActiveIntensity(item.detail) > 0 THEN 1 ELSE 0)

\* C23: a step adds exactly one to the counter of every policy of the
\* decisions that is active with positive intensity, an entry without an
\* explicit intensity (taken as 1.0) included, and leaves the counter of a
\* policy of intensity 0 as it was.
C23_CountersAdvance == [][\A t \in Teams : C23_CounterStep(t)]_vars

\* the hospital phase of a step: admissions, lengths of stay, decrement,
\* discharge
C24_HospitalPhase(t) ==
    (pc[t] = "hospital" /\ pc'[t] = "care") =>
        LET f == fr[t]
            hosp0 == arrs[f.hospitalised]
            rem0 == arrs[f.hospital_los_remaining]
            admitted == {i \in Ind : /\ hosp0[i] = 0
                                     /\ DrawsOf(t, 1)[i]
                                            < SampledProbs(f, "hospitalisation")[i]}
            n == Cardinality(admitted)
            sample == Gamma(GenAfter(gens[f.gen], N), f.capacity_modifiers["length_of_stay"], n)
            los == [i \in admitted |-> Max(1, sample[Rank(admitted, i)])]
            stay == [i \in Ind |-> IF i \in admitted THEN los[i] ELSE rem0[i]]
            hosp == arrs'[f.hospitalised]
            rem == arrs'[f.hospital_los_remaining]
        IN  /\ \A i \in admitted : arrs[f.alive][i] # 0 /\ hosp0[i] = 0 /\ los[i] >= 1
            /\ f.new_hospital = 0 /\ fr'[t].new_hospital = n
            /\ fr'[t].bed_days = f.bed_days + SumOver(admitted, los)
            /\ \A i \in Ind :
                    /\ (hosp0[i] # 0 \/ i \in admitted) =>
                            rem[i] = Max(0, stay[i] - 30 * DtMonths)
                    /\ hosp[i] # 0 <=> ((hosp0[i] # 0 \/ i \in admitted) /\ rem[i] > 0)
                    /\ hosp[i] # 0 => arrs[f.alive][i] # 0

\* the end of a step: who is in hospital, and the admissions figure
C24_StepEnd(t) ==
    StepEnds(t) =>
        /\ \A i \in Ind :
                After(t).hospitalised[i] # 0 =>
                    /\ After(t).alive[i] # 0
                    /\ arrs'[fr'[t].hospital_los_remaining][i] > 0
        /\ fr'[t].monthly_records[Len(fr'[t].monthly_records)].hospital_admissions
                = fr[t].new_hospital
        /\ fr'[t].timestep_results[Len(fr'[t].timestep_results)].hospital_admissions
                = fr[t].new_hospital

\* C24: in every step, admissions happen only among those alive and not in
\* hospital; a new stay lasts at least one day; every current stay, the new
\* ones included, loses 30 x dt_months days (it stops at 0); who is in
\* hospital at the end of the step is alive with days remaining; and the
\* step's hospital_admissions is the number admitted in it.
C24_HospitalConsistent == [][\A t \in Teams : C24_HospitalPhase(t) /\ C24_StepEnd(t)]_vars

\* in a second step, somebody admitted in the first and still in hospital
\* at its end, with days remaining, has lost the rest of the stay and been
\* discharged
C24_Witness ==
    /\ pc[1] = "care" /\ fr[1].month >= 1
    /\ \E i \in Ind :
            /\ fr[1].features.hospitalised[i] # 0
            /\ arrs[fr[1].hospitalised][i] = 0
            /\ arrs[fr[1].hospital_los_remaining][i] = 0
            /\ arrs[fr[1].alive][i] # 0

\* the care-home flags that a transition of team t's call turns on and off
CareAdmitted(t) ==
    {i \in Ind : Before(t).care_home[i] = 0 /\ After(t).care_home[i] # 0}
CareLeft(t) ==
    {i \in Ind : Before(t).care_home[i] # 0 /\ After(t).care_home[i] = 0}

C25_CareStep(t) ==
    (pc[t] \in Running /\ pc'[t] \in Running) =>
        /\ CareAdmitted(t) # {} => pc[t] = "care"
        /\ \A i \in CareAdmitted(t) :
                /\ Before(t).alive[i] # 0
                /\ Before(t).disability[i] # 0
                /\ Before(t).ltc_state[i] >= 2
        /\ \A i \in CareLeft(t) : Before(t).alive[i] # 0 /\ After(t).alive[i] = 0
        /\ pc[t] = "care" =>
                fr[t].new_care = 0 /\ fr'[t].new_care = Cardinality(CareAdmitted(t))
        /\ StepEnds(t) =>
                fr'[t].timestep_results[Len(fr'[t].timestep_results)].care_home_admissions
                    = fr[t].new_care

UnitCost(name) == Get(cfg.costs.unit_costs, name, 0) * 100

\* the month's record that the step of team t's call has just appended
NewRecord(t) == fr'[t].monthly_records[Len(fr'[t].monthly_records)]

\* the cost of a step: the round's policy cost divided by its months (to the
\* hundredth of a pound), the step's bed-days and the residents at its end
C26_StepCost(t) ==
    StepEnds(t) =>
        LET full == calculate_policy_cost(cfg.policies, fr[t].decisions, N)
            share == NewRecord(t).costs_gbp
                        - fr[t].bed_days * UnitCost("hospital_bed_day")
                        - Count(After(t).care_home) * 30 * UnitCost("care_home_day")
        IN  /\ share * fr[t].months <= full
            /\ full < (share + 1) * fr[t].months
            /\ NewRecord(t).bed_days = fr[t].bed_days
            /\ fr'[t].timestep_results[Len(fr'[t].timestep_results)].costs_gbp
                    = NewRecord(t).costs_gbp

\* the summary of a returned call
C26_Summary(t) ==
    (pc[t] = "loop" /\ pc'[t] = "done") =>
        LET results == ret'[t].timestep_results
            sum == SumOver(1..Len(results), [k \in 1..Len(results) |-> results[k].costs_gbp])
        IN  /\ Len(results) = fr[t].months
            /\ ret'[t].summary.costs_total = sum
            /\ ret'[t].summary.cost_value = sum

\* C26: the cost of a step is the round's policy cost divided by the number
\* of months, plus the step's bed-days times the unit cost of a hospital
\* bed-day, plus the care-home residents at the end of the step times 30
\* times the unit cost of a care-home day, so that the policy cost summed
\* over the round is the full policy cost; costs_total and cost_value of the
\* summary both are the sum of the costs of the steps.
C26_CostAccounting == [][\A t \in Teams : C26_StepCost(t) /\ C26_Summary(t)]_vars

\* a call of two months with a policy that costs has returned: there were
\* bed-days, and the costs exceed the policy cost and the cost of the
\* bed-days, so that there were residents as well
C26_Witness ==
    /\ pc[1] = "done" /\ ret[1].status = "returned"
    /\ Len(ret[1].timestep_results) = 2
    /\ ret[1].timestep_results[1].costs_gbp # ret[1].timestep_results[2].costs_gbp
    /\ calculate_policy_cost(cfg.policies, fr[1].decisions, N) > 0
    /\ ret[1].summary.bed_days_total > 0
    /\ ret[1].summary.cost_value
            > calculate_policy_cost(cfg.policies, fr[1].decisions, N)
                + ret[1].summary.bed_days_total * UnitCost("hospital_bed_day")

\* the deaths of a step are those who were alive when it began and are not
\* when it ends
C27_StepDeaths(t) ==
    StepEnds(t) =>
        /\ NewRecord(t).deaths = Count(fr[t].alive_mask) - Count(After(t).alive)
        /\ fr'[t].timestep_results[Len(fr'[t].timestep_results)].deaths
                = NewRecord(t).deaths

\* the deaths of a returned call, and the size of its cohorts
C27_CallDeaths(t) ==
    (pc[t] = "loop" /\ pc'[t] = "done") =>
        LET in == fr[t].snap.data
            out == Deref(objs', arrs', ret'[t].cohort).data
        IN  /\ ret'[t].summary.deaths_total = Count(in["alive"]) - Count(out["alive"])
            /\ \A col \in Cols : DOMAIN in[col] = Ind /\ DOMAIN out[col] = Ind
            /\ Deref(objs', arrs', fr[t].cohortIn).data["alive"] = in["alive"]

\* C27: the deaths of a step are the living before it less the living after
\* it; deaths_total of the summary is the living of the input cohort less
\* the living of the returned cohort; and both cohorts have the same N
\* individuals.
C27_DeathsConserved == [][\A t \in Teams : C27_StepDeaths(t) /\ C27_CallDeaths(t)]_vars

\* a call of two months has returned for a cohort in which everybody was
\* alive: both have died
C27_Witness ==
    /\ pc[1] = "done" /\ ret[1].status = "returned"
    /\ Len(ret[1].timestep_results) = 2
    /\ Count(fr[1].snap.data["alive"]) = N
    /\ Count(Deref(objs, arrs, ret[1].cohort).data["alive"]) = N - 2
    /\ ret[1].summary.deaths_total = 2

\* the first step of a call that got no policy_months_active computes its
\* modifiers here
FirstStepBegins(t) ==
    /\ pc[t] = "loop" /\ pc'[t] = "disability"
    /\ fr[t].month = 0
    /\ Falsy(fr[t].policy_months_active)

C28_FirstStep(t) ==
    FirstStepBegins(t) =>
        /\ \A policy_id \in DOMAIN fr[t].policy_counters :
                fr[t].policy_counters[policy_id] = 0
        /\ \A n \in 1..Len(build_active_policies(cfg.policies, fr[t].decisions,
                                                 fr[t].policy_counters)) :
                effect_strength(build_active_policies(cfg.policies, fr[t].decisions,
                                                      fr[t].policy_counters)[n]) = 0
        /\ fr'[t].policy_modifiers = EmptyDict

\* C28: a call that is given no policy_months_active, as the calls of the
\* Lecturer Console are, starts every counter at 0, so that in its first
\* step no policy has any strength and the aggregated policy modifiers are
\* empty, whatever the lag and whatever the earlier calls had chosen.
C28_RampRestarts == [][\A t \in Teams : C28_FirstStep(t)]_vars

\* a later call for a cohort that an earlier call returned, with a policy of
\* the catalogue at positive intensity and no lag, has computed the
\* modifiers of its first step: there are none
C28_Witness ==
    /\ pc[1] = "disability" /\ fr[1].month = 0
    /\ fr[1].calls >= 2
    /\ fr[1].snap.months_elapsed > 0
    /\ Falsy(fr[1].policy_months_active)
    /\ fr[1].policy_modifiers = EmptyDict
    /\ \E n \in 1..Len(build_active_policies(cfg.policies, fr[1].decisions,
                                             fr[1].policy_counters)) :
            LET ap == build_active_policies(cfg.policies, fr[1].decisions,
                                            fr[1].policy_counters)[n]
            IN  ap.intensity > 0 /\ ap.policy.lag_months = 0 /\ ap.months_active = 0

\* who is in hospital in the cohort the call of team t was given
InputHospitalised(t) == {i \in Ind : fr[t].snap.data["hospitalised"][i] # 0}

\* the hospital phase of the first step of a call
C29_FirstHospitalPhase(t) ==
    (pc[t] = "hospital" /\ pc'[t] = "care" /\ fr[t].month = 0) =>
        /\ \A i \in Ind : arrs[fr[t].hospital_los_remaining][i] = 0
        /\ \A i \in InputHospitalised(t) :
                /\ arrs'[fr[t].hospitalised][i] = 0
                /\ arrs'[fr[t].hospital_los_remaining][i] = 0
        /\ fr'[t].new_hospital
                = Cardinality({i \in Ind \ InputHospitalised(t) :
                                    DrawsOf(t, 1)[i]
                                        < SampledProbs(fr[t], "hospitalisation")[i]})

\* the end of the first step
C29_FirstStepEnd(t) ==
    (StepEnds(t) /\ fr[t].month = 0) =>
        \A i \in InputHospitalised(t) : After(t).hospitalised[i] = 0

\* C29: the remaining length of stay starts at 0 in every call, so whoever
\* is in hospital in the input cohort is out of hospital (or dead) when the
\* first step ends, and is not admitted again in that step.
C29_StayNotCarried ==
    [][\A t \in Teams : C29_FirstHospitalPhase(t) /\ C29_FirstStepEnd(t)]_vars

\* the call got a cohort with somebody alive in hospital; the hospital
\* phase of its first step has discharged them and admitted nobody
C29_Witness ==
    /\ pc[1] = "care" /\ fr[1].month = 0
    /\ \E i \in InputHospitalised(1) :
            /\ fr[1].snap.data["alive"][i] # 0
            /\ arrs[fr[1].hospitalised][i] = 0
    /\ fr[1].new_hospital = 0

\* the rows of the Decision table for the team and the round
RowsOf(db, team_id, round_id) ==
    {k \in 1..Len(db.decisions) :
        db.decisions[k].team_id = team_id /\ db.decisions[k].round_id = round_id}

C30_OneRow ==
    \A team_id \in Teams, round_id \in 1..Len(pure.db.rounds) :
        Cardinality(RowsOf(pure.db, team_id, round_id)) <= 1

C30_LockKept ==
    \A k \in 1..Len(pure.db.decisions) :
        pure.db.decisions[k].locked_ts # NoTime =>
            pure'.db.decisions[k].locked_ts # NoTime

\* C30: after any sequence and any interleaving of upsert_decision calls
\* the Decision table has at most one row per team and round (the first
\* call inserts, the later ones update), and a locked_ts that is set is not
\* cleared by a later call with locked = False.
C30_OneDecisionPerTeamAndRound == [](C30_OneRow) /\ [][C30_LockKept]_vars

=============================================================================
